---- MODULE Spec2Model ----
(***************************************************************************)
(* gnbsim: the NAS layer of one UE (encoding/nas/nas.go).                  *)
(*                                                                         *)
(* A NAS PDU is a sequence of octets (0..255).  The UE is a record with    *)
(* the fields of `type UE struct`; every decoder of the source takes a     *)
(* pointer to the remaining octets and consumes from its front, which is   *)
(* modelled by a decoding context [ue, pdu, panic]: the UE, the octets not *)
(* yet consumed, and whether a slice expression ran out of range (a Go     *)
(* run-time panic, which ends the process).                                *)
(*                                                                         *)
(* The three cryptographic primitives the source imports (MILENAGE,        *)
(* HMAC-SHA-256, AES-CMAC) are replaced by one keyed polynomial digest     *)
(* over the same input octets the source feeds them; everything around     *)
(* them (the input strings, the truncations, the comparisons) is the       *)
(* source's.                                                               *)
(***************************************************************************)
EXTENDS Integers, Sequences, FiniteSets, Bags, TLC

\* ------------------------------------------------------------------------
\* Octet helpers
\* ------------------------------------------------------------------------

\* s[from:] of Go, for 0 <= from <= len(s)
Drop(s, n) == SubSeq(s, n + 1, Len(s))

\* s[:n] of Go, for 0 <= n <= len(s)
Take(s, n) == SubSeq(s, 1, n)

\* big-endian 16 bit value (binary.BigEndian.PutUint16)
PutUint16(v) == << (v \div 256) % 256, v % 256 >>

\* big-endian 32 bit value (binary.BigEndian.PutUint32)
PutUint32(v) ==
    << (v \div 16777216) % 256, (v \div 65536) % 256, (v \div 256) % 256, v % 256 >>

\* binary.BigEndian.Uint16 of the first two octets
Uint16(s) == s[1] * 256 + s[2]

RECURSIVE BitAnd(_, _)
BitAnd(a, b) ==
    IF a = 0 \/ b = 0 THEN 0
    ELSE (a % 2) * (b % 2) + 2 * BitAnd(a \div 2, b \div 2)

RECURSIVE BitOr(_, _)
BitOr(a, b) ==
    IF a = 0 THEN b
    ELSE IF b = 0 THEN a
    ELSE (IF a % 2 = 1 \/ b % 2 = 1 THEN 1 ELSE 0) + 2 * BitOr(a \div 2, b \div 2)

RECURSIVE BitXor(_, _)
BitXor(a, b) ==
    IF a = 0 THEN b
    ELSE IF b = 0 THEN a
    ELSE ((a + b) % 2) + 2 * BitXor(a \div 2, b \div 2)

\* the decimal digits of n, most significant first (fmt.Sprintf("%d", n))
RECURSIVE Digits(_)
Digits(n) == IF n < 10 THEN << n >> ELSE Append(Digits(n \div 10), n % 10)

\* fmt.Sprintf("%02d", n) and "%03d": at least w digits, zero padded
RECURSIVE ZeroPad(_, _)
ZeroPad(d, w) == IF Len(d) >= w THEN d ELSE ZeroPad(<< 0 >> \o d, w)

\* the ASCII octets of a digit string
Ascii(d) == [i \in 1..Len(d) |-> 48 + d[i]]


\* ------------------------------------------------------------------------
\* Protocol constants (nas.go)
\* ------------------------------------------------------------------------

state5GMMDeregistared == 0
state5GMMRegisteredInitiated == 1
state5GMMRegistered == 2
state5GMMServiceRequestInitiated == 3
state5GMMDeregistaredInitiated == 4

rcvdNull == 0
rcvdAuthenticationRequest == 1
rcvdSecurityModeCommand == 2
rcvdRegistrationAccept == 3

EPD5GSSessionManagement == 46
EPD5GSMobilityManagement == 126

SecurityHeaderTypePlain == 0
SecurityHeaderTypeIntegrityProtected == 1
SecurityHeaderTypeIntegrityProtectedAndCiphered == 2
SecurityHeaderTypeIntegrityProtectedWithNewContext == 3
SecurityHeaderTypeIntegrityProtectedAndCipheredWithNewContext == 4

MessageTypeRegistrationRequest == 65
MessageTypeRegistrationAccept == 66
MessageTypeRegistrationComplete == 67
MessageTypeDeregistrationRequest == 69
MessageTypeDeregistrationAccept == 70
MessageTypeAuthenticationRequest == 86
MessageTypeAuthenticationResponse == 87
MessageTypeSecurityModeCommand == 93
MessageTypeSecurityModeComplete == 94
MessageTypeULNasTransport == 103
MessageTypeDLNasTransport == 104
MessageTypePDUSessionEstablishmentRequest == 193
MessageTypePDUSessionEstablishmentAccept == 194

ieiRequestType == 8
ieiPDUSessionType == 9
ieiIMEISVRequest == 14
iei5GMMCapability == 16
ieiPDUSessionID2 == 18
ieiNSSAI == 21
ieiGPRSTimer2 == 22
ieiAuthParamAUTN == 32
ieiAuthParamRAND == 33
ieiSNSSAI == 34
ieiDNN == 37
ieiPDUAddress == 41
ieiAuthParamRES == 45
ieiUESecurityCapability == 46
ieiAdditional5GSecInfo == 54
ieiTAIList == 84
iei5GSMCause == 89
ieiGPRSTimer3 == 94
ieiNASMessageContainer == 113
iei5GSMobileIdentity == 119

\* the IE registries handed to decInformationElement (ieStrAuthReq, ...)
ieStrAuthReq == { ieiAuthParamAUTN, ieiAuthParamRAND }
ieStrRegAcc == { ieiNSSAI, ieiGPRSTimer2, ieiTAIList, ieiGPRSTimer3, iei5GSMobileIdentity }
ieStrDLNasTransport == { ieiPDUSessionID2 }
ieStrSecModeCmd == { ieiIMEISVRequest, ieiAdditional5GSecInfo }
ieStrPSEAccept == { ieiPDUAddress, iei5GSMCause }

TypeIDSUCI == 1
TypeID5GGUTI == 2
TypeIDIMEISV == 5
SUPIFormatIMSI == 0
ProtectionSchemeNull == 0
FiveGMMCapN3data == 32
RegistrationTypeInitialRegistration == 1
RegistrationTypeFlagFollowOnRequestPending == 8
KeySetIdentityNoKeyIsAvailable == 7
accessType3GPP == 1
PayloadContainerN1SMInformation == 1
RequestTypeInitialRequest == 1
EA0 == 128
IA0 == 128
IA2 == 32
PDUSessionIPv4 == 1
PDUSessionIPv4v6 == 3

\* ------------------------------------------------------------------------
\* Stand-in for the imported cryptographic primitives
\* ------------------------------------------------------------------------

\* keyed digest of the octets s: every octet weighted by its position
Digest(seed, s) ==
    (seed * 257 + Len(s)
       + BagCardinality([i \in 1..Len(s) |-> (s[i] + 1) * (((i * 7) % 31) + 1)]))
    % 65521

\* n output octets carrying the digest h
Expand(h, n) ==
    [i \in 1..n |-> IF i % 2 = 1 THEN ((h \div 256) + (i \div 2)) % 256
                                  ELSE ((h % 256) + (i \div 2)) % 256]

\* hmac.New(sha256.New, key); Write(s); Sum(nil): 32 octets
HmacSha256(key, s) == Expand(Digest(1, key \o << 0 >> \o s), 32)

\* cmac.Sum(m, aes.NewCipher(key), 16): 16 octets
CmacSum(key, m) == Expand(Digest(2, key \o << 0 >> \o m), 16)

\* milenage F2345: RES, CK, IK, AK from K, OPc, RAND
MilenageF2345(k, opc, rand) ==
    LET h == Digest(3, k \o << 0 >> \o opc \o << 0 >> \o rand) IN
    [ RES |-> Expand(h, 8),
      CK  |-> Expand((h * 3 + 1) % 65521, 16),
      IK  |-> Expand((h * 5 + 2) % 65521, 16),
      AK  |-> Expand((h * 7 + 3) % 65521, 6) ]

\* milenage F1: MAC-A from K, OPc, RAND, SQN, AMF
MilenageF1(k, opc, rand, sqn, amf) ==
    Expand(Digest(7, k \o << 0 >> \o opc \o << 0 >> \o rand \o sqn \o PutUint16(amf)), 8)


\* ------------------------------------------------------------------------
\* The UE (type UE struct) after NewNAS / PowerON
\* ------------------------------------------------------------------------

\* the subscriber of the configuration file: digit strings are sequences of
\* digits, K and OPc the octets hex.DecodeString yields
UEConfigs ==
    { [ MSIN |-> << 0, 0, 0, 0, 0, 0, 0, 0, 0, 3 >>,
        MCC |-> 208, MNC |-> 93,
        IMEISV |-> << 0, 0, 0, 0, 0, 0, 0, 1, 0, 0, 0, 0, 0, 1, 0, 1 >>,
        RoutingIndicator |-> 1234,
        ProtectionScheme |-> "null",
        K |-> << 139, 175, 71, 63, 47, 143, 208, 148,
                 135, 204, 203, 215, 9, 124, 104, 98 >>,
        OPc |-> << 142, 39, 182, 175, 14, 105, 46, 117,
                   15, 50, 102, 122, 59, 20, 96, 93 >>,
        SNSSAI |-> [ SST |-> 1, SD |-> << 1, 2, 3 >> ],
        DNN |-> << << 105, 110, 116, 101, 114, 110, 101, 116 >> >> ] }

\* json.Unmarshal into a zero UE: the exported fields come from the file,
\* every other field has its zero value
NewUE(cfg) ==
    [ MSIN |-> cfg.MSIN, MCC |-> cfg.MCC, MNC |-> cfg.MNC, IMEISV |-> cfg.IMEISV,
      RoutingIndicator |-> cfg.RoutingIndicator,
      ProtectionScheme |-> cfg.ProtectionScheme,
      SNSSAI |-> cfg.SNSSAI, DNN |-> cfg.DNN,
      AuthParam |-> [ K |-> cfg.K, OPc |-> cfg.OPc,
                      rand |-> << >>, autn |-> << >>, seqxorak |-> << >>,
                      amf |-> << >>, mac |-> << >>, abba |-> << >>,
                      RESstar |-> << >>, Kausf |-> << >>, Kseaf |-> << >>,
                      Kamf |-> << >>, Kenc |-> << >>, Kint |-> << >> ],
      state5GMM |-> 0,
      sm |-> [ pduSessionId |-> 0, procedureTransactionId |-> 0 ],
      Recv |-> [ flag |-> [ imeisv |-> FALSE, rinmr |-> FALSE ],
                 state |-> 0,
                 fiveGGUTI |-> << >>,
                 t3502 |-> 0, t3512 |-> 0,
                 PDUAddress |-> << >> ],
      NasCount |-> 0,
      wa |-> [ securityHeaderParsed |-> FALSE, forceRINMR |-> FALSE ],
      DecodeError |-> "" ]

PowerON(ue) ==
    [ ue EXCEPT !.state5GMM = state5GMMDeregistared,
                !.Recv.state = rcvdNull,
                !.wa.forceRINMR = TRUE ]

NewNAS(cfg) == PowerON(NewUE(cfg))

\* ------------------------------------------------------------------------
\* Encoders
\* ------------------------------------------------------------------------

\* Str2BCD: two hexadecimal digits per octet, the first in the low nibble
Str2BCD(str) ==
    [j \in 1..((Len(str) + 1) \div 2) |->
        str[2 * j - 1] + (IF 2 * j <= Len(str) THEN 16 * str[2 * j] ELSE 0)]

\* `for i, v := range bcd { arr[i] = v }` into a zeroed [n]byte
FillArray(bcd, n) == [i \in 1..n |-> IF i <= Len(bcd) THEN bcd[i] ELSE 0]

encPLMN(mcc, mnc) ==
    LET str == IF mnc < 100 THEN Digits(mcc) \o << 15 >> \o ZeroPad(Digits(mnc), 2)
                            ELSE Digits(mcc) \o Digits(mnc)
    IN FillArray(Str2BCD(str), 3)

encRoutingIndicator(ind) == FillArray(Str2BCD(Digits(ind)), 2)

encProtectionScheme(profile) == ProtectionSchemeNull

encSchemeOutput(msin) == FillArray(Str2BCD(msin), 5)

enc5GSMMMessageHeader(headType, msgType) ==
    << EPD5GSMobilityManagement, headType, msgType >>

enc5GSSMMessageHeader(psi, pti, msgType) ==
    << EPD5GSSessionManagement, psi, pti, msgType >>

encRegistrationType ==
    << BitOr(RegistrationTypeInitialRegistration,
             RegistrationTypeFlagFollowOnRequestPending) >>

encDeregistrationType == << accessType3GPP >>

\* called with a type 1 IE to share the octet with
encNASKeySetIdentifier(type1ie) ==
    << BitOr(type1ie[1], KeySetIdentityNoKeyIsAvailable * 16) >>

enc5GSMobileIDTypeSUCI(ue) ==
    PutUint16(13)
    \o << BitOr(TypeIDSUCI, SUPIFormatIMSI * 16) >>
    \o encPLMN(ue.MCC, ue.MNC)
    \o encRoutingIndicator(ue.RoutingIndicator)
    \o << encProtectionScheme(ue.ProtectionScheme), 0 >>
    \o encSchemeOutput(ue.MSIN)

enc5GSMobileIDType5GGUTI(ue) ==
    LET pdu == << BitOr(TypeID5GGUTI, 240) >> \o ue.Recv.fiveGGUTI
    IN PutUint16(Len(pdu)) \o pdu

enc5GSMobileIDTypeIMEISV(ue) ==
    LET typeID == IF Len(ue.IMEISV) \div 2 = 1 THEN BitOr(TypeIDIMEISV, 8)
                                              ELSE TypeIDIMEISV
        imeisv == << typeID >> \o ue.IMEISV \o << 15 >>
    IN PutUint16(9) \o FillArray(Str2BCD(imeisv), 9)

enc5GSMobileID(ue, iei, typeID) ==
    (IF iei THEN << iei5GSMobileIdentity >> ELSE << >>)
    \o (CASE typeID = TypeIDSUCI   -> enc5GSMobileIDTypeSUCI(ue)
          [] typeID = TypeID5GGUTI -> enc5GSMobileIDType5GGUTI(ue)
          [] typeID = TypeIDIMEISV -> enc5GSMobileIDTypeIMEISV(ue)
          [] OTHER -> << >>)

enc5GMMCapability == << iei5GMMCapability, 1, FiveGMMCapN3data >>

encUESecurityCapability == << ieiUESecurityCapability, 4, EA0, BitOr(IA0, IA2), 0, 0 >>

encAuthParamRes(ue) ==
    << ieiAuthParamRES, 16 >> \o FillArray(ue.AuthParam.RESstar, 16)

encPDUSessionID2(id) == << ieiPDUSessionID2, id >>

encRequestType(val) == << BitOr(ieiRequestType * 16, val) >>

encSNSSAI(ue) == << ieiSNSSAI, 4, ue.SNSSAI.SST >> \o ue.SNSSAI.SD

RECURSIVE encDNNLabels(_, _)
encDNNLabels(labels, i) ==
    IF i > Len(labels) THEN << >>
    ELSE << Len(labels[i]) >> \o labels[i] \o encDNNLabels(labels, i + 1)

encDNN(ue) ==
    LET dnn == encDNNLabels(ue.DNN, 1)
    IN << ieiDNN, Len(dnn) >> \o dnn

encIntegrityProtectionMaximuDataRate == << 255, 255 >>

encPDUSessionType == << BitOr(ieiPDUSessionType * 16, PDUSessionIPv4v6) >>

\* MakeRegistrationRequest with the 5GMM state set to REGISTERED instead of
\* REGISTERED-INITIATED
MakeRegistrationRequestRegistered(ue) ==
    [ ue  |-> [ ue EXCEPT !.state5GMM = state5GMMRegistered ],
      pdu |-> enc5GSMMMessageHeader(SecurityHeaderTypePlain,
                                    MessageTypeRegistrationRequest)
              \o encNASKeySetIdentifier(encRegistrationType)
              \o enc5GSMobileID(ue, FALSE, TypeIDSUCI)
              \o enc5GMMCapability
              \o encUESecurityCapability ]

\* 8.2.6 Registration request: the PDU and the UE it leaves behind
MakeRegistrationRequest(ue) ==
    [ ue  |-> [ ue EXCEPT !.state5GMM = state5GMMRegisteredInitiated ],
      pdu |-> enc5GSMMMessageHeader(SecurityHeaderTypePlain,
                                    MessageTypeRegistrationRequest)
              \o encNASKeySetIdentifier(encRegistrationType)
              \o enc5GSMobileID(ue, FALSE, TypeIDSUCI)
              \o enc5GMMCapability
              \o encUESecurityCapability ]

\* encNASMessageContainer with the contained message left out
encNASMessageContainerNoMessage(ue, iei, msgType) ==
    [ ue  |-> ue,
      pdu |-> (IF iei THEN << ieiNASMessageContainer >> ELSE << >>)
              \o PutUint16(0) ]

\* 9.11.3.33 NAS message container: builds the contained message afresh
encNASMessageContainer(ue, iei, msgType) ==
    LET made == IF msgType = MessageTypeRegistrationRequest
                THEN MakeRegistrationRequest(ue)
                ELSE [ ue |-> ue, pdu |-> << >> ]
    IN [ ue  |-> made.ue,
         pdu |-> (IF iei THEN << ieiNASMessageContainer >> ELSE << >>)
                 \o PutUint16(Len(made.pdu)) \o made.pdu ]

\* aes.NewCipher accepts keys of 16, 24 or 32 octets only
ValidAesKey(key) == Len(key) \in { 16, 24, 32 }

\* count := uint32((*pdu)[0]): the count ComputeMAC feeds into the MAC
MacCount(pdu) == pdu[1]

\* ComputeMAC: 128-NIA2 over count(4) | bearer, direction | 0 0 0 | pdu, the
\* count being the first octet of pdu.  panic: pdu is empty, or the key is
\* not an AES key (cmac.Sum is handed a nil cipher.Block).
ComputeMAC(ue, dir, pdu) ==
    IF Len(pdu) = 0 \/ ~ValidAesKey(ue.AuthParam.Kint)
    THEN [ mac |-> << >>, panic |-> TRUE ]
    ELSE LET count == MacCount(pdu)
             bearer == 1
             m == PutUint32(count) \o << (bearer * 8 + dir * 4) % 256, 0, 0, 0 >> \o pdu
         IN [ mac |-> Take(CmacSum(ue.AuthParam.Kint, m), 4), panic |-> FALSE ]

\* the sequence number octet: uint8(ue.NasCount)
SeqOf(nasCount) == nasCount % 256

\* enc5GSecurityProtectedMessageHeader with the MAC computed for the
\* downlink direction
enc5GSecurityProtectedMessageHeaderDownlinkDir(ue, headType, pdu) ==
    LET withSeq == << SeqOf(ue.NasCount) >> \o pdu
        m == ComputeMAC(ue, 1, withSeq)
    IN [ ue    |-> IF m.panic THEN ue ELSE [ ue EXCEPT !.NasCount = @ + 1 ],
         head  |-> << EPD5GSMobilityManagement, headType >> \o m.mac,
         pdu   |-> withSeq,
         panic |-> m.panic ]

\* enc5GSecurityProtectedMessageHeader with NasCount incremented before the
\* sequence number is taken from it
enc5GSecurityProtectedMessageHeaderCountFirst(ue, headType, pdu) ==
    LET withSeq == << SeqOf(ue.NasCount + 1) >> \o pdu
        m == ComputeMAC(ue, 0, withSeq)
    IN [ ue    |-> IF m.panic THEN ue ELSE [ ue EXCEPT !.NasCount = @ + 1 ],
         head  |-> << EPD5GSMobilityManagement, headType >> \o m.mac,
         pdu   |-> withSeq,
         panic |-> m.panic ]

\* enc5GSecurityProtectedMessageHeader: prepends the sequence number to the
\* caller's pdu, computes the MAC over it and then increments NasCount
enc5GSecurityProtectedMessageHeader(ue, headType, pdu) ==
    LET withSeq == << SeqOf(ue.NasCount) >> \o pdu
        m == ComputeMAC(ue, 0, withSeq)
    IN [ ue    |-> IF m.panic THEN ue ELSE [ ue EXCEPT !.NasCount = @ + 1 ],
         head  |-> << EPD5GSMobilityManagement, headType >> \o m.mac,
         pdu   |-> withSeq,
         panic |-> m.panic ]

\* head, then the pdu the header encoder left (sequence number included)
Protected(ue, headType, pdu) ==
    LET h == enc5GSecurityProtectedMessageHeader(ue, headType, pdu)
    IN [ ue |-> h.ue, pdu |-> IF h.panic THEN << >> ELSE h.head \o h.pdu,
         plain |-> pdu, panic |-> h.panic ]

MakeAuthenticationResponse(ue) ==
    [ ue |-> ue,
      pdu |-> enc5GSMMMessageHeader(SecurityHeaderTypePlain,
                                    MessageTypeAuthenticationResponse)
              \o encAuthParamRes(ue),
      plain |-> << >>, panic |-> FALSE ]

MakeRegistrationComplete(ue) ==
    Protected(ue, SecurityHeaderTypeIntegrityProtectedAndCipheredWithNewContext,
              enc5GSMMMessageHeader(SecurityHeaderTypePlain,
                                    MessageTypeRegistrationComplete))

MakeULNasTransport(ue, payloadType, msgType, payload) ==
    enc5GSMMMessageHeader(SecurityHeaderTypePlain, MessageTypeULNasTransport)
    \o << payloadType >>
    \o PutUint16(Len(payload)) \o payload
    \o (IF payloadType = PayloadContainerN1SMInformation
        THEN encPDUSessionID2(ue.sm.pduSessionId) ELSE << >>)
    \o (IF msgType = MessageTypePDUSessionEstablishmentRequest
        THEN encRequestType(RequestTypeInitialRequest) ELSE << >>)
    \o (IF payloadType = PayloadContainerN1SMInformation
           /\ msgType = MessageTypePDUSessionEstablishmentRequest
        THEN encSNSSAI(ue) \o encDNN(ue) ELSE << >>)

MakeDeregistrationRequest(ue) ==
    Protected(ue, SecurityHeaderTypeIntegrityProtectedAndCipheredWithNewContext,
              enc5GSMMMessageHeader(SecurityHeaderTypePlain,
                                    MessageTypeDeregistrationRequest)
              \o encNASKeySetIdentifier(encDeregistrationType)
              \o enc5GSMobileID(ue, FALSE, TypeID5GGUTI))

MakeSecurityModeComplete(ue) ==
    LET head == enc5GSMMMessageHeader(SecurityHeaderTypePlain,
                                      MessageTypeSecurityModeComplete)
        id == IF ue.Recv.flag.imeisv
              THEN enc5GSMobileID(ue, TRUE, TypeIDIMEISV) ELSE << >>
        ue1 == [ ue EXCEPT !.Recv.flag.imeisv = FALSE ]
        withC == ue1.Recv.flag.rinmr \/ ue1.wa.forceRINMR
        c == encNASMessageContainer(ue1, TRUE, MessageTypeRegistrationRequest)
        ue2 == IF withC THEN [ c.ue EXCEPT !.Recv.flag.rinmr = FALSE ] ELSE ue1
    IN Protected(ue2, SecurityHeaderTypeIntegrityProtectedAndCipheredWithNewContext,
                 head \o id \o (IF withC THEN c.pdu ELSE << >>))

MakePDUSessionEstablishmentRequest(ue) ==
    LET ue1 == [ ue EXCEPT !.sm.pduSessionId = 1, !.sm.procedureTransactionId = 1 ]
        sm == enc5GSSMMessageHeader(ue1.sm.pduSessionId, ue1.sm.procedureTransactionId,
                                    MessageTypePDUSessionEstablishmentRequest)
              \o encIntegrityProtectionMaximuDataRate
              \o encPDUSessionType
    IN Protected(ue1, SecurityHeaderTypeIntegrityProtectedAndCiphered,
                 MakeULNasTransport(ue1, PayloadContainerN1SMInformation,
                                    MessageTypePDUSessionEstablishmentRequest, sm))

\* MakeNasPdu: the response the receive state calls for
MakeNasPdu(ue) ==
    CASE ue.Recv.state = rcvdAuthenticationRequest -> MakeAuthenticationResponse(ue)
      [] ue.Recv.state = rcvdSecurityModeCommand   -> MakeSecurityModeComplete(ue)
      [] ue.Recv.state = rcvdRegistrationAccept    -> MakeRegistrationComplete(ue)
      [] OTHER -> [ ue |-> ue, pdu |-> << >>, plain |-> << >>, panic |-> FALSE ]


\* ------------------------------------------------------------------------
\* Decoders.  A decoding context d is [ue, pdu, panic, log]: the UE, the
\* octets not yet consumed (*pdu), whether an index or slice expression was
\* out of range (the Go run-time panics and the process ends), and the lines
\* handed to dprint that mark the integrity check and the message handlers.
\* ------------------------------------------------------------------------

Panic(d) == [ d EXCEPT !.panic = TRUE, !.pdu = << >> ]

\* at least n octets are left to read
Has(d, n) == ~d.panic /\ Len(d.pdu) >= n

\* *pdu = (*pdu)[n:]
Skip(d, n) == IF Has(d, n) THEN [ d EXCEPT !.pdu = Drop(@, n) ] ELSE Panic(d)

Log(d, line) == [ d EXCEPT !.log = Append(@, line) ]

\* 9.11.3.28 IMEISV request
decIMEISVRequest(d) ==
    IF ~Has(d, 1) THEN Panic(d)
    ELSE LET val == d.pdu[1]
             d1 == IF val % 2 # 0 THEN [ d EXCEPT !.ue.Recv.flag.imeisv = TRUE ] ELSE d
         IN Skip(d1, 1)

\* 9.11.3.41 PDU session identity 2
decPDUSessionID2(d) == Skip(d, 1)

\* 9.11.2.8 S-NSSAI without IEI: the octets it consumes follow from its length
decSNSSAI(d) ==
    IF ~Has(d, 2) THEN Panic(d)
    ELSE LET length == d.pdu[1]
             n == 2 + (IF length \in { 4, 5, 8 } THEN 3 ELSE 0)
                    + (IF length \in { 2, 5, 8 } THEN 1 ELSE 0)
                    + (IF length = 8 THEN 3 ELSE 0)
         IN Skip(d, n)

RECURSIVE decNSSAILoop(_, _)
decNSSAILoop(d, length) ==
    IF d.panic \/ length <= 0 THEN d
    ELSE LET d1 == decSNSSAI(d)
         IN decNSSAILoop(d1, length - (Len(d.pdu) - Len(d1.pdu)))

\* 9.11.3.37 NSSAI
decNSSAI(d) ==
    IF ~Has(d, 1) THEN Panic(d) ELSE decNSSAILoop(Skip(d, 1), d.pdu[1])

\* 9.11.2.4 GPRS timer 2
decGPRSTimer2(d) ==
    IF ~Has(d, 2) THEN Panic(d)
    ELSE LET tmp == d.pdu[2]
             unit == tmp \div 32
             multiple == CASE unit = 1 -> 60 [] unit = 2 -> 360 [] unit = 7 -> 0
                           [] OTHER -> 2
         IN Skip([ d EXCEPT !.ue.Recv.t3502 = (tmp % 32) * multiple ], 2)

\* 9.11.2.5 GPRS timer 3
decGPRSTimer3(d) ==
    IF ~Has(d, 2) THEN Panic(d)
    ELSE LET tmp == d.pdu[2]
             unit == tmp \div 32
             multiple == CASE unit = 1 -> 3600 [] unit = 2 -> 36000 [] unit = 3 -> 2
                           [] unit = 4 -> 30 [] unit = 5 -> 60 [] unit = 6 -> 828000
                           [] unit = 7 -> 0 [] OTHER -> 600
         IN Skip([ d EXCEPT !.ue.Recv.t3512 = (tmp % 32) * multiple ], 2)

\* 9.11.3.15 Authentication parameter AUTN: SQN xor AK (6), AMF (2), MAC (8)
decAuthParamAUTN(d) ==
    IF ~Has(d, 1) THEN Panic(d)
    ELSE LET autnlen == d.pdu[1]
             autn == SubSeq(d.pdu, 2, 1 + autnlen)
         IN IF ~Has(d, 1 + autnlen) \/ autnlen < 16 THEN Panic(d)
            ELSE Skip([ d EXCEPT !.ue.AuthParam.autn = autn,
                                 !.ue.AuthParam.seqxorak = SubSeq(autn, 1, 6),
                                 !.ue.AuthParam.amf = SubSeq(autn, 7, 8),
                                 !.ue.AuthParam.mac = SubSeq(autn, 9, 16) ],
                      1 + autnlen)

\* 9.11.3.16 Authentication parameter RAND
decAuthParamRAND(d) ==
    IF ~Has(d, 16) THEN Panic(d)
    ELSE Skip([ d EXCEPT !.ue.AuthParam.rand = Take(d.pdu, 16) ], 16)

\* 9.11.4.10 PDU address
decPDUAddress(d) ==
    IF ~Has(d, 2) THEN Panic(d)
    ELSE LET pduSessionType == d.pdu[2] % 8
         IN IF pduSessionType = PDUSessionIPv4
            THEN IF ~Has(d, 6) THEN Panic(d)
                 ELSE Skip([ d EXCEPT !.ue.Recv.PDUAddress = SubSeq(d.pdu, 3, 6) ], 6)
            ELSE Skip(d, 2)

\* 9.11.3.12 Additional 5G security information
decAdditional5GSecInfo(d) ==
    IF ~Has(d, 1) THEN Panic(d)
    ELSE LET length == d.pdu[1]
         IN IF length # 1 THEN Skip(d, 1 + length)
            ELSE IF ~Has(d, 2) THEN Panic(d)
            ELSE LET val == d.pdu[2]
                 IN Skip([ d EXCEPT !.ue.Recv.flag.rinmr = ((val \div 2) % 2 = 1) ], 2)

\* 9.11.3.9 5GS tracking area identity list
decTAIList(d) ==
    IF ~Has(d, 2) THEN Panic(d)
    ELSE LET length == d.pdu[1]
             tmp == d.pdu[2]
             elementNum == (tmp % 32) + 1
             typeOfList == tmp \div 32
         IN IF typeOfList = 0
            THEN Skip(d, 2 + 3 + 3 * elementNum)
            ELSE Skip(d, 2 + length)

\* 9.11.4.2 5GSM cause
dec5GSMCause(d) == Skip(d, 1)

\* 9.11.3.4 5GS mobile identity: only a 5G-GUTI is kept
dec5GSMobileID(d) ==
    IF ~Has(d, 3) THEN Panic(d)
    ELSE LET length == (Uint16(d.pdu) + 65535) % 65536
             id == d.pdu[3] % 8
         IN IF ~Has(d, 3 + length) THEN Panic(d)
            ELSE Skip(IF id = TypeID5GGUTI
                      THEN [ d EXCEPT !.ue.Recv.fiveGGUTI = SubSeq(d.pdu, 4, 3 + length) ]
                      ELSE d,
                      3 + length)

\* the switch of decInformationElement
decOneIE(d, iei) ==
    CASE iei = ieiIMEISVRequest       -> decIMEISVRequest(d)
      [] iei = ieiPDUSessionID2       -> decPDUSessionID2(d)
      [] iei = ieiNSSAI               -> decNSSAI(d)
      [] iei = ieiGPRSTimer2          -> decGPRSTimer2(d)
      [] iei = ieiAuthParamAUTN       -> decAuthParamAUTN(d)
      [] iei = ieiAuthParamRAND       -> decAuthParamRAND(d)
      [] iei = ieiPDUAddress          -> decPDUAddress(d)
      [] iei = ieiAdditional5GSecInfo -> decAdditional5GSecInfo(d)
      [] iei = ieiTAIList             -> decTAIList(d)
      [] iei = iei5GSMCause           -> dec5GSMCause(d)
      [] iei = ieiGPRSTimer3          -> decGPRSTimer3(d)
      [] iei = iei5GSMobileIdentity   -> dec5GSMobileID(d)
      [] OTHER                        -> [ d EXCEPT !.pdu = << >> ]

\* decInformationElement: the optional IEs, until the octets run out or an
\* identifier is met that the message's registry does not hold
RECURSIVE decInformationElement(_, _)
decInformationElement(d, ieStrMap) ==
    IF d.panic \/ Len(d.pdu) = 0 THEN d
    ELSE LET first == d.pdu[1]
             type1ie == first >= 128
             iei == IF type1ie THEN first \div 16 ELSE first
         IN IF iei \notin ieStrMap THEN d
            ELSE LET d1 == IF type1ie
                           THEN [ d EXCEPT !.pdu = << first % 16 >> \o Drop(d.pdu, 1) ]
                           ELSE Skip(d, 1)
                 IN decInformationElement(decOneIE(d1, iei), ieStrMap)


\* ------------------------------------------------------------------------
\* TS 33.501 key derivation
\* ------------------------------------------------------------------------

\* fmt.Sprintf("5G:mnc%03d.mcc%03d.3gppnetwork.org", ue.MNC, ue.MCC)
ServingNetworkName(ue) ==
    << 53, 71, 58, 109, 110, 99 >> \o Ascii(ZeroPad(Digits(ue.MNC), 3))
    \o << 46, 109, 99, 99 >> \o Ascii(ZeroPad(Digits(ue.MCC), 3))
    \o << 46, 51, 103, 112, 112, 110, 101, 116, 119, 111, 114, 107, 46, 111, 114, 103 >>

\* a KDF parameter followed by its two-octet length
KdfParam(p) == p \o PutUint16(Len(p))

ComputeKausf(ue, ck, ik) ==
    [ ue EXCEPT !.AuthParam.Kausf =
        HmacSha256(ck \o ik, << 106 >> \o KdfParam(ServingNetworkName(ue))
                                      \o KdfParam(ue.AuthParam.seqxorak)) ]

ComputeRESstar(ue, rand, res, ck, ik) ==
    [ ue EXCEPT !.AuthParam.RESstar =
        Drop(HmacSha256(ck \o ik, << 107 >> \o KdfParam(ServingNetworkName(ue))
                                           \o KdfParam(rand) \o KdfParam(res)), 16) ]

ComputeKseaf(ue) ==
    [ ue EXCEPT !.AuthParam.Kseaf =
        HmacSha256(ue.AuthParam.Kausf, << 108 >> \o KdfParam(ServingNetworkName(ue))) ]

\* supi := fmt.Sprintf("%d%02d%s", ue.MCC, ue.MNC, ue.MSIN)
ComputeKamf(ue) ==
    LET supi == Ascii(Digits(ue.MCC) \o ZeroPad(Digits(ue.MNC), 2) \o ue.MSIN)
    IN [ ue EXCEPT !.AuthParam.Kamf =
           HmacSha256(ue.AuthParam.Kseaf, << 109 >> \o KdfParam(supi)
                                                   \o KdfParam(ue.AuthParam.abba)) ]

ComputeAlgKey(ue) ==
    [ ue EXCEPT !.AuthParam.Kenc =
                    Drop(HmacSha256(ue.AuthParam.Kamf, << 105, 1, 0, 1, 0, 0, 1 >>), 16),
                !.AuthParam.Kint =
                    Drop(HmacSha256(ue.AuthParam.Kamf, << 105, 2, 0, 1, 2, 0, 1 >>), 16) ]

\* ------------------------------------------------------------------------
\* Message decoders
\* ------------------------------------------------------------------------

\* 9.11.3.10 ABBA
decABBA(d) ==
    IF ~Has(d, 1) THEN Panic(d)
    ELSE LET length == d.pdu[1]
         IN IF ~Has(d, 1 + length) THEN Panic(d)
            ELSE Skip([ d EXCEPT !.ue.AuthParam.abba = SubSeq(d.pdu, 2, 1 + length) ],
                      1 + length)

\* the MILENAGE run of decAuthenticationRequest: MAC-A over the received
\* RAND, the SQN recovered from SQN xor AK, and the received AMF
MacA(ue) ==
    LET rand == FillArray(ue.AuthParam.rand, 16)
        f == MilenageF2345(ue.AuthParam.K, ue.AuthParam.OPc, rand)
        sqn == [n \in 1..6 |-> IF n <= Len(ue.AuthParam.seqxorak)
                               THEN BitXor(ue.AuthParam.seqxorak[n], f.AK[n]) ELSE 0]
    IN MilenageF1(ue.AuthParam.K, ue.AuthParam.OPc, rand, sqn, Uint16(ue.AuthParam.amf))

\* what decAuthenticationRequest does when MAC-A does not match
AuthMacMismatch(d) == Log(d, "received and calculated MAC values do not match.")

\* 8.2.1 Authentication request
decAuthenticationRequest(d) ==
    LET d1 == decInformationElement(decABBA(Skip(Log(d, "Authentication Request"), 1)),
                                    ieStrAuthReq)
    IN IF d1.panic \/ Len(d1.ue.AuthParam.amf) < 2 THEN Panic(d1)
       ELSE LET ue == d1.ue
                rand == FillArray(ue.AuthParam.rand, 16)
                f == MilenageF2345(ue.AuthParam.K, ue.AuthParam.OPc, rand)
            IN IF ue.AuthParam.mac # MacA(ue)
               THEN AuthMacMismatch(d1)
               ELSE LET keyed == ComputeRESstar(
                                    ComputeAlgKey(ComputeKamf(ComputeKseaf(
                                        ComputeKausf(ue, f.CK, f.IK)))),
                                    rand, f.RES, f.CK, f.IK)
                    IN Log([ d1 EXCEPT !.ue = [ keyed EXCEPT
                                                  !.Recv.state = rcvdAuthenticationRequest ] ],
                           "received and calculated MAC values match.")

\* 9.11.3.6 5GS registration result
dec5GSRegistrationResult(d) ==
    IF ~Has(d, 1) THEN Panic(d)
    ELSE LET length == d.pdu[1]
         IN IF length = 0 THEN Panic(d) ELSE Skip(d, 1 + length)

\* 8.2.7 Registration accept
decRegistrationAccept(d) ==
    LET d1 == decInformationElement(
                  dec5GSRegistrationResult(Log(d, "Registration Accept")), ieStrRegAcc)
    IN IF d1.panic THEN d1
       ELSE [ d1 EXCEPT !.ue.Recv.state = rcvdRegistrationAccept ]

\* 9.11.3.54 UE security capability
decUESecurityCapability(d) ==
    IF ~Has(d, 1) THEN Panic(d) ELSE Skip(d, 1 + d.pdu[1])

\* 8.2.25 Security mode command: algorithms, ngKSI, replayed capabilities, IEs
decSecurityModeCommand(d) ==
    LET d1 == decInformationElement(
                  decUESecurityCapability(Skip(Skip(Log(d, "Security Mode Command"), 1), 1)),
                  ieStrSecModeCmd)
    IN IF d1.panic THEN d1
       ELSE [ d1 EXCEPT !.ue.Recv.state = rcvdSecurityModeCommand ]

\* 9.11.4.13 QoS rules: one packet filter
decPacketFilter(d) ==
    IF ~Has(d, 2) THEN Panic(d) ELSE Skip(d, 2 + d.pdu[2])

RECURSIVE decPacketFilters(_, _)
decPacketFilters(d, n) ==
    IF d.panic \/ n = 0 THEN d ELSE decPacketFilters(decPacketFilter(d), n - 1)

\* one QoS rule; length is the rule's declared size
decQoSRule(d) ==
    IF ~Has(d, 4) THEN [ d |-> Panic(d), length |-> 0 ]
    ELSE LET ruleLen == Uint16(Drop(d.pdu, 1))
             filterNum == d.pdu[4] % 16
         IN [ d |-> Skip(decPacketFilters(Skip(d, 4), filterNum), 2),
              length |-> 3 + ruleLen ]

RECURSIVE decQoSRuleLoop(_, _)
decQoSRuleLoop(d, remain) ==
    IF d.panic \/ remain <= 0 THEN d
    ELSE LET r == decQoSRule(d) IN decQoSRuleLoop(r.d, remain - r.length)

decQoSRules(d) ==
    IF ~Has(d, 2) THEN Panic(d) ELSE decQoSRuleLoop(Skip(d, 2), Uint16(d.pdu))

\* 9.11.4.14 Session-AMBR: length, unit, rate, unit, rate
decSessionAMBR(d) == Skip(d, 7)

\* 8.3.2 PDU session establishment accept: the session type and the SSC
\* mode share the first octet
decPDUSessionEstablishmentAccept(d) ==
    decInformationElement(
        decSessionAMBR(decQoSRules(Skip(Log(d, "PDU Session Establishment Accept"), 1))),
        ieStrPSEAccept)

\* 8.3 5GS session management messages: PDU session identity, procedure
\* transaction identity, message type
Decode5GSM(d) ==
    IF ~Has(d, 3) THEN Panic(d)
    ELSE LET msgType == d.pdu[3]
         IN IF msgType = MessageTypePDUSessionEstablishmentAccept
            THEN decPDUSessionEstablishmentAccept(Skip(d, 3))
            ELSE Skip(d, 3)

RECURSIVE Decode(_)

\* 9.11.3.39 Payload container: the payload is decoded as a NAS message of
\* its own; the octets after it stay with the caller
decPayloadContainer(d) ==
    IF ~Has(d, 2) THEN Panic(d)
    ELSE LET length == Uint16(d.pdu)
         IN IF ~Has(d, 2 + length) THEN Panic(d)
            ELSE LET r == Decode([ d EXCEPT !.pdu = SubSeq(d.pdu, 3, 2 + length) ])
                 IN IF r.panic THEN r
                    ELSE [ r EXCEPT !.pdu = Drop(d.pdu, 2 + length) ]

\* 8.2.11 DL NAS transport: payload container type, payload container, IEs
decDLNasTransport(d) ==
    decInformationElement(decPayloadContainer(Skip(Log(d, "DL NAS Transport"), 1)),
                          ieStrDLNasTransport)

\* the switch on the message type in Decode5GMM
Dispatch5GMM(d, msgType) ==
    CASE msgType = MessageTypeRegistrationAccept    -> decRegistrationAccept(d)
      [] msgType = MessageTypeAuthenticationRequest -> decAuthenticationRequest(d)
      [] msgType = MessageTypeSecurityModeCommand   -> decSecurityModeCommand(d)
      [] msgType = MessageTypeDLNasTransport        -> decDLNasTransport(d)
      [] OTHER -> d

\* what Decode5GMM does when the received MAC differs from the computed one
IntegrityFailed(d) ==
    [ Log(d, "***** Integrity check failed...") EXCEPT
        !.ue.DecodeError = "nas: integrity checking failed",
        !.pdu = << >> ]

\* the direction ComputeMAC is given for a received message
DecodeDir == 1

\* whether Decode5GMM treats the octets after the security header type as
\* MAC, sequence number and inner message
TakesIntegrityPath(ue, secHeader) ==
    secHeader # 0 /\ ue.wa.securityHeaderParsed = FALSE

\* 8.2 5GS mobility management messages
Decode5GMM(d) ==
    IF ~Has(d, 1) THEN Panic(d)
    ELSE LET secHeader == d.pdu[1]
             d1 == Skip(d, 1)
         IN IF TakesIntegrityPath(d.ue, secHeader)
            THEN IF ~Has(d1, 5) THEN Panic(d1)
                 ELSE LET mac == Take(d1.pdu, 4)
                          d2 == Skip(d1, 4)
                          macCalc == ComputeMAC(d2.ue, DecodeDir, d2.pdu)
                      IN IF macCalc.panic THEN Panic(d2)
                         ELSE IF mac # macCalc.mac THEN IntegrityFailed(d2)
                         ELSE Decode([ Skip(Log(d2, "***** Integrity check passed"), 1)
                                         EXCEPT !.ue.wa.securityHeaderParsed = TRUE ])
            ELSE IF ~Has(d1, 1) THEN Panic(d1)
            ELSE LET d3 == Dispatch5GMM(Skip(d1, 1), d1.pdu[1])
                 IN IF d3.panic THEN d3
                    ELSE [ d3 EXCEPT !.ue.wa.securityHeaderParsed = FALSE ]

\* Decode: clears the decode error, then dispatches on the EPD
Decode(d) ==
    IF ~Has(d, 1) THEN Panic(d)
    ELSE LET epd == d.pdu[1]
             d1 == Skip([ d EXCEPT !.ue.DecodeError = "" ], 1)
         IN IF epd = EPD5GSMobilityManagement
            THEN Decode5GMM(d1)
            ELSE Decode5GSM(d1)

\* Receive: the UE after decoding pdu, and whether the decode panicked
Receive(ue, pdu) ==
    Decode([ ue |-> ue, pdu |-> pdu, panic |-> FALSE, log |-> << >> ])


\* ------------------------------------------------------------------------
\* Downlink messages the network side can send (after nas_test.go)
\* ------------------------------------------------------------------------

\* the first octet changed: a MAC that does not verify
Tamper(mac) == << (mac[1] + 1) % 256 >> \o Drop(mac, 1)

TestRAND == [i \in 1..16 |-> 32 + i]
TestSQN == << 0, 0, 0, 0, 0, 33 >>
TestAMF == << 128, 0 >>

\* Authentication Request: ngKSI, ABBA, RAND IE, AUTN IE built for the
\* subscriber's K and OPc; tampered: the MAC in AUTN does not verify
AuthenticationRequestPdu(ue, tampered) ==
    LET f == MilenageF2345(ue.AuthParam.K, ue.AuthParam.OPc, TestRAND)
        seqxorak == [n \in 1..6 |-> BitXor(TestSQN[n], f.AK[n])]
        maca == MilenageF1(ue.AuthParam.K, ue.AuthParam.OPc, TestRAND, TestSQN,
                           Uint16(TestAMF))
    IN << EPD5GSMobilityManagement, SecurityHeaderTypePlain,
          MessageTypeAuthenticationRequest, 0, 2, 0, 0 >>
       \o << ieiAuthParamRAND >> \o TestRAND
       \o << ieiAuthParamAUTN, 16 >> \o seqxorak \o TestAMF
       \o (IF tampered THEN Tamper(maca) ELSE maca)

\* Security Mode Command: algorithms, ngKSI, replayed UE security
\* capabilities, then the IMEISV request (type 1 IE) and the Additional 5G
\* security information IE with value add5g, when add5g >= 0
SecurityModeCommandPdu(sht, imeisv, add5g) ==
    << EPD5GSMobilityManagement, sht, MessageTypeSecurityModeCommand,
       2, 0, 4, 128, 160, 0, 0 >>
    \o (IF imeisv THEN << ieiIMEISVRequest * 16 + 1 >> ELSE << >>)
    \o (IF add5g >= 0 THEN << ieiAdditional5GSecInfo, 1, add5g >> ELSE << >>)

\* Registration Accept: registration result, 5G-GUTI, TAI list, allowed
\* NSSAI, T3512, T3502
RegistrationAcceptPdu(sht) ==
    << EPD5GSMobilityManagement, sht, MessageTypeRegistrationAccept, 1, 1,
       iei5GSMobileIdentity, 0, 11, 242, 2, 248, 57, 202, 254, 0, 0, 0, 0, 1,
       ieiTAIList, 7, 0, 2, 248, 57, 0, 0, 1,
       ieiNSSAI, 10, 4, 1, 1, 2, 3, 4, 1, 17, 34, 51,
       ieiGPRSTimer3, 1, 6,
       ieiGPRSTimer2, 1, 44 >>

\* PDU Session Establishment Accept (5GSM): session type and SSC mode, QoS
\* rules, session AMBR, 5GSM cause, PDU address
PDUSessionEstablishmentAcceptPdu ==
    << EPD5GSSessionManagement, 1, 0, MessageTypePDUSessionEstablishmentAccept,
       17, 0, 9, 1, 0, 6, 49, 49, 1, 1, 0, 0,
       6, 1, 232, 3, 1, 232, 3,
       iei5GSMCause, 50,
       ieiPDUAddress, 5, 1, 60, 60, 0, 1 >>

\* DL NAS Transport carrying the PDU Session Establishment Accept
DLNasTransportPdu ==
    << EPD5GSMobilityManagement, SecurityHeaderTypePlain, MessageTypeDLNasTransport,
       PayloadContainerN1SMInformation >>
    \o PutUint16(Len(PDUSessionEstablishmentAcceptPdu))
    \o PDUSessionEstablishmentAcceptPdu
    \o << ieiPDUSessionID2, 1 >>

DeregistrationAcceptPdu ==
    << EPD5GSMobilityManagement, SecurityHeaderTypePlain, MessageTypeDeregistrationAccept >>

\* the frame {EPD, SHT, MAC, seq, inner} with the downlink MAC under the key
\* the UE holds (no key yet: an all-zero MAC); tampered: the MAC changed
DownlinkProtected(ue, sht, seq, inner, tampered) ==
    LET m == ComputeMAC(ue, 1, << seq >> \o inner)
        mac == IF m.panic THEN << 0, 0, 0, 0 >> ELSE m.mac
    IN << EPD5GSMobilityManagement, sht >>
       \o (IF tampered THEN Tamper(mac) ELSE mac)
       \o << seq >> \o inner

\* a Registration Accept sent with a non-zero security header type and
\* neither MAC nor sequence number
UnsignedRegistrationAcceptPdu ==
    RegistrationAcceptPdu(SecurityHeaderTypeIntegrityProtected)

\* The downlink messages offered to the UE.  kind names the message, sht is
\* its security header type, mac tells whether MAC and sequence number follow
\* the security header type, valid whether the MAC (for an Authentication
\* Request: the MAC-A in AUTN) is the one the UE computes, rinmr whether the
\* message asks for the initial NAS message
Downlink(ue) ==
    LET Frame(kind, sht, inner, tampered, rinmr) ==
            [ kind |-> kind, sht |-> sht, mac |-> TRUE, valid |-> ~tampered,
              rinmr |-> rinmr,
              pdu |-> DownlinkProtected(ue, sht, 0, inner, tampered) ]
        Bare(kind, valid, pdu) ==
            [ kind |-> kind, sht |-> pdu[2], mac |-> FALSE, valid |-> valid,
              rinmr |-> FALSE, pdu |-> pdu ]
        wnc == SecurityHeaderTypeIntegrityProtectedWithNewContext
        ipc == SecurityHeaderTypeIntegrityProtectedAndCiphered
    IN { Bare("AuthenticationRequest", TRUE, AuthenticationRequestPdu(ue, FALSE)),
         Bare("AuthenticationRequest", FALSE, AuthenticationRequestPdu(ue, TRUE)),
         Frame("SecurityModeCommand", wnc, SecurityModeCommandPdu(wnc, FALSE, -1),
               FALSE, FALSE),
         Frame("SecurityModeCommand", wnc, SecurityModeCommandPdu(0, TRUE, 2),
               FALSE, TRUE),
         Frame("RegistrationAccept", ipc, RegistrationAcceptPdu(ipc), FALSE, FALSE),
         Frame("RegistrationAccept", ipc, RegistrationAcceptPdu(ipc), TRUE, FALSE),
         Frame("DLNasTransport", ipc, DLNasTransportPdu, FALSE, FALSE),
         Frame("PDUSessionEstablishmentAccept", ipc, PDUSessionEstablishmentAcceptPdu,
               FALSE, FALSE),
         Bare("DeregistrationAccept", TRUE, DeregistrationAcceptPdu),
         Bare("RegistrationAccept", FALSE, UnsignedRegistrationAcceptPdu) }

\* ------------------------------------------------------------------------
\* Packed encoding rules (encoding/per/per.go, the BitField version)
\* ------------------------------------------------------------------------

\* type BitField struct: the octets and the number of bits in use (0: octet
\* aligned); panic: a slice expression of the function that built it ran
\* out of range
BitField(v, n) == [ Value |-> v, Len |-> n, panic |-> FALSE ]

\* math/bits.Len: the number of bits needed to represent x
RECURSIVE BitsLen(_)
BitsLen(x) == IF x = 0 THEN 0 ELSE 1 + BitsLen(x \div 2)

\* stands for the bounds 4294967295 and 1099511627775 of the source, which
\* the model checker's 32 bit integers cannot hold: such a bound is only
\* ever compared with 65536
WideMax == 2147483647

\* ShiftLeft: the octets shifted left by shiftlen bits, then one octet
\* dropped from the end for every 8 bits of shift
ShiftLeft(in, shiftlen) ==
    IF in.panic \/ shiftlen <= 0 THEN in
    ELSE LET n == Len(in.Value)
             q == shiftlen \div 8
             r == shiftlen % 8
             At(i) == IF i >= 1 /\ i <= n THEN in.Value[i] ELSE 0
             shifted == [m \in 1..n |->
                            ((At(m + q) * (2 ^ r)) % 256)
                               + (At(m + q + 1) \div (2 ^ (8 - r)))]
         IN IF q > n THEN [ in EXCEPT !.panic = TRUE ]
            ELSE [ in EXCEPT !.Value = SubSeq(shifted, 1, n - q) ]

\* ShiftLeftMost: the bits in use moved to the most significant end
ShiftLeftMost(in) == ShiftLeft(in, Len(in.Value) * 8 - in.Len)

\* MergeBitField, behind the shift: the octets of in1 are or-ed onto the
\* front of the shifted octets, and octetlen octets are kept
mergeShifted(in1, shifted, outLen, octetlen) ==
    IF shifted.panic \/ Len(shifted.Value) < Len(in1.Value)
         \/ octetlen > Len(shifted.Value)
    THEN [ Value |-> << >>, Len |-> outLen, panic |-> TRUE ]
    ELSE [ Value |-> [i \in 1..octetlen |->
                        IF i <= Len(in1.Value)
                        THEN BitOr(shifted.Value[i], in1.Value[i])
                        ELSE shifted.Value[i]],
           Len |-> outLen, panic |-> FALSE ]

\* MergeBitField: in2 appended to the bits of in1
MergeBitField(in1, in2) ==
    IF in1.panic \/ in2.panic THEN [ in1 EXCEPT !.panic = TRUE ]
    ELSE mergeShifted(in1,
                      ShiftLeft(BitField([i \in 1..Len(in1.Value) |-> 0] \o in2.Value, 0),
                                Len(in1.Value) * 8 - in1.Len),
                      in1.Len + in2.Len,
                      \* Go's integer division truncates towards zero
                      IF in1.Len + in2.Len = 0 THEN 1
                      ELSE ((in1.Len + in2.Len - 1) \div 8) + 1)

\* 11.3 Encoding as a non-negative-binary-integer
EncNonNegativeBinaryInteger(input) ==
    LET bytelen == (BitsLen(input) \div 8) + 1
    IN IF bytelen = 1 THEN << 0, input >>
       ELSE [i \in 1..bytelen |-> (input \div (256 ^ (bytelen - i))) % 256]

\* 11.5 Encoding of a constrained whole number
EncConstrainedWholeNumber(input, min, max) ==
    IF input < min \/ input > max
    THEN [ bf |-> BitField(<< >>, 0), err |-> "out of range" ]
    ELSE LET span == max - min        \* inputRange - 1
             inputEnc == input - min
         IN [ err |-> "",
              bf |-> CASE span = 0 -> BitField(<< >>, 0)
                       [] span > 0 /\ span < 255 ->
                              BitField(<< inputEnc >>, BitsLen(span))
                       [] span = 255 -> BitField(<< inputEnc >>, 0)
                       [] span > 255 /\ span <= 65535 ->
                              BitField(PutUint16(inputEnc), 0)
                       [] OTHER ->
                              BitField(EncNonNegativeBinaryInteger(input), 0) ]

\* the bit field r of a whole number or of a length: an octet aligned one
\* leaves the bit field for the octets v; the extension marker is one more
\* bit at the front
withExtmark(r, extmark) ==
    LET aligned == r.bf.Len = 0
        b1 == IF aligned THEN BitField(<< >>, 0) ELSE r.bf
        b2 == IF extmark
              THEN BitField(IF b1.Len % 8 = 0 THEN << 0 >> \o b1.Value
                            ELSE b1.Value,
                            b1.Len + 1)
              ELSE b1
    IN [ bf |-> ShiftLeftMost(b2), v |-> IF aligned THEN r.bf.Value ELSE << >>,
         err |-> r.err ]

wholeNumberWithExtmark(r, extmark) ==
    IF r.err # "" THEN [ bf |-> r.bf, v |-> << >>, err |-> r.err ]
    ELSE withExtmark(r, extmark)

encConstrainedWholeNumberWithExtmark(input, min, max, extmark) ==
    wholeNumberWithExtmark(EncConstrainedWholeNumber(input, min, max), extmark)

\* 11.9 General rules for encoding a length determinant
EncLengthDeterminant(input, min, max) ==
    IF max # 0 /\ max < 65536
    THEN EncConstrainedWholeNumber(input, min, max)
    ELSE CASE input < 128 -> [ bf |-> BitField(<< input >>, 0), err |-> "" ]
           [] input >= 128 /\ input < 16384 ->
                 [ bf |-> BitField(<< BitOr((input \div 256) % 256, 128),
                                      input % 256 >>, 0),
                   err |-> "" ]
           [] OTHER -> [ bf |-> BitField(<< >>, 0), err |-> "not implemented" ]

encLengthWithExtmark(inlen, min, max, extmark) ==
    withExtmark(EncLengthDeterminant(inlen, min, max), extmark)

\* the length l, then the octets
lengthThen(l, octets) == [ bf |-> l.bf, v |-> l.v \o octets, err |-> l.err ]

\* 13. Encoding the integer type
EncInteger(input, min, max, extmark) ==
    IF min = max
    THEN [ bf |-> IF extmark THEN BitField(<< 0 >>, 1) ELSE BitField(<< >>, 0),
           v |-> << >>, err |-> "" ]
    ELSE encConstrainedWholeNumberWithExtmark(input, min, max, extmark)

\* 14. Encoding the enumerated type
EncEnumerated(input, min, max, extmark) ==
    encConstrainedWholeNumberWithExtmark(input, min, max, extmark)

\* 16. Encoding the bitstring type
EncBitString(input, inputlen, min, max, extmark) ==
    IF inputlen < min \/ inputlen > max
    THEN [ bf |-> BitField(<< >>, 0), v |-> << >>, err |-> "out of range" ]
    ELSE IF Len(input) * 8 < inputlen
    THEN [ bf |-> BitField(<< >>, 0), v |-> << >>, err |-> "too short" ]
    ELSE IF min = max
    THEN [ bf |-> BitField(<< >>, 0),
           v |-> ShiftLeftMost(BitField(input, inputlen)).Value, err |-> "" ]
    ELSE lengthThen(encLengthWithExtmark(inputlen, min, max, extmark),
                    ShiftLeftMost(BitField(input, inputlen)).Value)

\* 17. Encoding the octetstring type
EncOctetString(input, min, max, extmark) ==
    LET inputlen == Len(input)
    IN IF max # 0 /\ (inputlen < min \/ inputlen > max)
       THEN [ bf |-> BitField(<< >>, 0), v |-> << >>, err |-> "out of range" ]
       ELSE IF min = max /\ min # 0
       THEN IF min < 3
            THEN [ bf |-> ShiftLeftMost(
                            IF extmark
                            THEN BitField(<< 0 >> \o input, inputlen * 8 + 1)
                            ELSE BitField(input, inputlen * 8)),
                   v |-> << >>, err |-> "" ]
            ELSE IF min < 65537
            THEN [ bf |-> IF extmark THEN ShiftLeftMost(BitField(<< 0 >>, 1))
                          ELSE BitField(<< >>, 0),
                   v |-> input, err |-> "" ]
            ELSE [ bf |-> BitField(<< >>, 0), v |-> << >>, err |-> "" ]
       ELSE lengthThen(encLengthWithExtmark(inputlen, min, max, extmark), input)

\* 19. Encoding the sequence type: the preamble
EncSequence(extmark, optnum, optflag) ==
    IF optnum > 7
    THEN [ bf |-> BitField(<< >>, 0), err |-> "not implemented" ]
    ELSE [ bf |-> ShiftLeftMost(BitField(<< optflag % 256 >>,
                                         (IF extmark THEN 1 ELSE 0) + optnum)),
           err |-> "" ]

\* 20. Encoding the sequence-of type: the preamble
EncSequenceOf(input, min, max, extmark) == EncEnumerated(input, min, max, extmark)

\* 23. Encoding the choice type
EncChoice(input, min, max, extmark) == EncInteger(input, min, max, extmark)


\* ------------------------------------------------------------------------
\* NGAP (encoding/ngap/ngap.go): the gNB, its campers and the decoder
\*
\* The gNB is a record with the fields of `type GNB struct` that the
\* procedures use; gnb.Camper is the sequence of its campers and a *Camper
\* is an integer: 0 is nil, c > 0 is gnb.Camper[c], c < 0 is the temporary
\* camper tmp[-c] that decAMFUENGAPID allocated during the present Decode.
\* A *nas.UE is the index of the UE in ues (0: nil); Camper.RecvMsg is the
\* index of a NAS PDU in the sequence of the PDUs the NAS layers produced
\* (0: nil).
\*
\* A decoding context g is [gnb, ues, pdu, panic, log, tmp, c, err, ies,
\* delivered]: the gNB, the UEs, the octets not yet consumed, whether the
\* run time panicked, the lines given to log.Printf, the temporary campers,
\* the *Camper and the error the last decoder returned ("": nil), and two
\* records of what happened: for every Protocol IE its id, the length octet
\* that was read and the octets left before and after its value was
\* processed, and for every NAS PDU given to a UE the UE and the octets.
\* ------------------------------------------------------------------------

reject == 0

idAllowedNSSAI == 0
idAMFName == 1
idAMFUENGAPID == 10
idGUAMI == 28
idMaskedIMEISV == 34
idMobilityRestrictionList == 36
idNASPDU == 38
idPDUSessResSetupListCxtReq == 71
idPDUSessResSetupListSUReq == 74
idPDUSessResSetupListSURes == 75
idPLMNSupportList == 80
idRANUENGAPID == 85
idRelativeAMFCapacity == 86
idRRCEstablishmentCause == 90
idSecurityKey == 94
idServedGUAMIList == 96
idUEContextRequest == 112
idUESecurityCapabilities == 119
idUserLocationInformation == 121
idPDUSessionType == 134
idQosFlowSetupRequestList == 136
idULNGUUPTNLInformation == 139

\* the ids ieID gives a name
ieID ==
    { idAllowedNSSAI, idAMFName, idAMFUENGAPID, idGUAMI, idMaskedIMEISV,
      idMobilityRestrictionList, idNASPDU, idPDUSessResSetupListCxtReq,
      idPDUSessResSetupListSUReq, idPDUSessResSetupListSURes, idPLMNSupportList,
      idRANUENGAPID, idRelativeAMFCapacity, idSecurityKey, idServedGUAMIList,
      idUESecurityCapabilities, idPDUSessionType, idQosFlowSetupRequestList,
      idULNGUUPTNLInformation }

idDownlinkNASTransport == 4
idInitialContextSetup == 14
idInitialUEMessage == 15
idNGSetup == 21
idPDUSessResSetup == 29
idUplinkNASTransport == 46

\* the procedure codes procCodeStr gives a name
procCodeStr ==
    { idDownlinkNASTransport, idInitialContextSetup, idInitialUEMessage,
      idNGSetup, idPDUSessResSetup, idUplinkNASTransport }

initiatingMessage == 0
successfulOutcome == 1

CAMPER_TYPE_TEMPORARY == 0
CAMPER_TYPE_NORMAL == 1

\* var obj Camper: every field has its zero value
ZeroCamper ==
    [ UE |-> 0, AmfId |-> 0, RanId |-> 0, PDUSessionID |-> 0, QosFlowID |-> 0,
      RecvMsg |-> 0, camperType |-> CAMPER_TYPE_TEMPORARY ]

\* *c for a non-nil c
CamperAt(g, c) == IF c > 0 THEN g.gnb.Camper[c] ELSE g.tmp[-c]

\* *c = obj for a non-nil c
SetCamper(g, c, obj) ==
    IF c > 0 THEN [ g EXCEPT !.gnb.Camper[c] = obj ]
    ELSE [ g EXCEPT !.tmp[-c] = obj ]

\* CampIn without the increment of the counter
CampInSameId(gnb, ranUeNgapId, ue) ==
    [ gnb |-> [ gnb EXCEPT !.Camper =
                  Append(@, [ ZeroCamper EXCEPT !.UE = ue, !.RanId = ranUeNgapId,
                                                !.camperType = CAMPER_TYPE_NORMAL ]) ],
      RanUeNgapId |-> ranUeNgapId ]

\* CampIn: a new camper for ue is appended to gnb.Camper, its RanId the
\* package counter ranUeNgapId, which is incremented (a uint32: it wraps
\* after 4294967295 campers)
CampIn(gnb, ranUeNgapId, ue) ==
    [ gnb |-> [ gnb EXCEPT !.Camper =
                  Append(@, [ ZeroCamper EXCEPT !.UE = ue, !.RanId = ranUeNgapId,
                                                !.camperType = CAMPER_TYPE_NORMAL ]) ],
      RanUeNgapId |-> ranUeNgapId + 1 ]

\* the first camper of gnb.Camper whose UE is ue, or nil
LookupCamperByUE(gnb, ue) ==
    LET found == { i \in 1..Len(gnb.Camper) : gnb.Camper[i].UE = ue }
    IN IF found = {} THEN 0 ELSE CHOOSE i \in found : \A j \in found : i <= j

\* the first camper of gnb.Camper whose RanId is id, or nil
LookupCamperByRanId(gnb, id) ==
    LET found == { i \in 1..Len(gnb.Camper) : gnb.Camper[i].RanId = id }
    IN IF found = {} THEN 0 ELSE CHOOSE i \in found : \A j \in found : i <= j

\* the UE u has received naspdu: r is what Receive returned
Delivered(g, u, naspdu, r) ==
    IF r.panic THEN Panic(g)
    ELSE [ g EXCEPT !.ues[u] = r.ue,
                    !.delivered = Append(@, [ ue |-> u, pdu |-> naspdu ]) ]

\* SendtoUE: c.UE.Receive(pdu); c is dereferenced, and so is c.UE by the
\* methods of the UE
SendtoUE(g, c, naspdu) ==
    IF g.panic \/ c = 0 THEN Panic(g)
    ELSE IF CamperAt(g, c).UE = 0 THEN Panic(g)
    ELSE Delivered(g, CamperAt(g, c).UE, naspdu,
                   Receive(g.ues[CamperAt(g, c).UE], naspdu))

\* RecvfromUE: the camper of ue keeps the pointer to the PDU; no camper:
\* nil is dereferenced
RecvfromUE(gnb, ue, pdu) ==
    LET c == LookupCamperByUE(gnb, ue)
    IN IF c = 0 THEN [ gnb |-> gnb, panic |-> TRUE ]
       ELSE [ gnb |-> [ gnb EXCEPT !.Camper[c].RecvMsg = pdu ], panic |-> FALSE ]

\* decNgapPdu: the procedure code, between the type of the PDU and the
\* criticality; fewer than 3 octets: nothing is consumed and the code is 0
decNgapPdu(g) ==
    IF Len(g.pdu) < 3 THEN [ g |-> g, procCode |-> 0 ]
    ELSE [ g |-> Skip(g, 3), procCode |-> g.pdu[2] ]

\* per.DecLengthDeterminant(pdu, 0): one octet below 128, else two octets
\* without the most significant bit; the length is in g.len
DecLengthDeterminant(g) ==
    IF ~Has(g, 1) THEN Panic(g)
    ELSE IF g.pdu[1] < 128 THEN [ Skip(g, 1) EXCEPT !.len = g.pdu[1] ]
    ELSE IF ~Has(g, 2) THEN Panic(g)
    ELSE [ Skip(g, 2) EXCEPT !.len = (g.pdu[1] % 128) * 256 + g.pdu[2] ]

\* 9.3.3.1 AMF UE NGAP ID: a temporary camper that holds the id
decAMFUENGAPID(g, length) ==
    IF length # 2
    THEN [ g EXCEPT !.c = 0, !.err = "unsupported AMF-UE-NGAP-ID length." ]
    ELSE IF ~Has(g, 2) THEN Panic(g)
    ELSE [ Skip(g, 2) EXCEPT
             !.tmp = Append(@, [ ZeroCamper EXCEPT !.AmfId = Uint16(g.pdu) ]),
             !.c = -(Len(g.tmp) + 1), !.err = "" ]

\* 9.3.3.2 RAN UE NGAP ID: the camper with this RanId takes the AmfId of
\* cTmp, the camper the IEs before this one gave
decRANUENGAPID(g, cTmp, length) ==
    IF length # 2
    THEN [ g EXCEPT !.c = 0, !.err = "unsupported AMF-UE-NGAP-ID length." ]
    ELSE IF ~Has(g, 2) THEN Panic(g)
    ELSE LET id == Uint16(g.pdu)
             c == LookupCamperByRanId(g.gnb, id)
             g1 == Skip(g, 2)
         IN IF c = 0
            THEN [ g1 EXCEPT !.c = 0, !.err = "cannot find camper for RanId" ]
            ELSE IF cTmp = 0 THEN Panic(g1)
            ELSE [ SetCamper(g1, c, [ CamperAt(g1, c) EXCEPT
                                        !.AmfId = CamperAt(g1, cTmp).AmfId ])
                     EXCEPT !.c = c, !.err = "" ]

\* 9.3.3.4 NAS-PDU: a length octet, that many octets, given to the UE of c
decNASPDU(g, c) ==
    IF ~Has(g, 1) THEN Panic(g)
    ELSE LET length == g.pdu[1]
             g1 == Skip(g, 1)
         IN IF ~Has(g1, length) THEN Panic(g1)
            ELSE SendtoUE(Skip(g1, length), c, Take(g1.pdu, length))

RECURSIVE decProtocolIEContainer(_, _)

\* 9.3.1.24 S-NSSAI: two octets, and the three octets of the SD if the
\* bit behind the extension marker is set
ngapDecSNSSAI(g) ==
    IF ~Has(g, 2) THEN Panic(g)
    ELSE LET seq == ShiftLeft(BitField(Take(g.pdu, 2), 0), 1).Value
             option == seq[1] >= 128
         IN IF option THEN Skip(Skip(g, 2), 3) ELSE Skip(g, 2)

\* 9.3.1.50 PDU Session ID: one octet, kept in the camper
decPDUSessionID(g, c) ==
    IF ~Has(g, 1) \/ c = 0 THEN Panic(g)
    ELSE SetCamper(Skip(g, 1), c, [ CamperAt(g, c) EXCEPT !.PDUSessionID = g.pdu[1] ])

\* the octets behind the part that was decoded on its own
Rest(h, pdu) == IF h.panic THEN h ELSE [ h EXCEPT !.pdu = pdu ]

\* 9.3.4.1 PDU Session Resource Setup Request Transfer: an octet string
\* that holds a Protocol IE container; g1 is behind the length of the
\* octet string
TransferContainer(g1, c) ==
    IF ~Has(g1, g1.len) THEN Panic(g1)
    ELSE Rest(decProtocolIEContainer([ g1 EXCEPT !.pdu = Take(g1.pdu, g1.len) ], c),
              Drop(g1.pdu, g1.len))

decPDUSessionResourceSetupRequestTransfer(g, c) ==
    TransferContainer(DecLengthDeterminant(g), c)

\* the items of a PDU Session Resource Setup List after their first octet:
\* session id, NAS-PDU if the item has one, S-NSSAI, transfer
decPDUSessionResourceSetupItem(g, c, hasNasPdu) ==
    decPDUSessionResourceSetupRequestTransfer(
        ngapDecSNSSAI(IF hasNasPdu THEN decNASPDU(decPDUSessionID(g, c), c)
                      ELSE decPDUSessionID(g, c)),
        c)

\* the items of a list: each behind an octet of preamble, of which the bit
\* optBit tells whether the item has a NAS-PDU
RECURSIVE decPDUSessionResourceSetupItems(_, _, _, _, _)
decPDUSessionResourceSetupItems(h, c, optBit, i, num) ==
    IF h.panic \/ i = num THEN h
    ELSE IF ~Has(h, 1) THEN Panic(h)
    ELSE decPDUSessionResourceSetupItems(
             decPDUSessionResourceSetupItem(Skip(h, 1), c,
                                            BitAnd(h.pdu[1], optBit) # 0),
             c, optBit, i + 1, num)

\* 9.2.1.1 PDU Session Resource Setup List SUReq: the number of items less
\* one, then the items; the option bit of an item is the one behind the
\* extension marker; length is not used
decPDUSessionResourceSetupListSUReq(g, c, length) ==
    IF ~Has(g, 1) THEN Panic(g)
    ELSE decPDUSessionResourceSetupItems(Skip(g, 1), c, 64, 0, g.pdu[1] + 1)

\* 9.2.2.1 PDU Session Resource Setup List CxtReq: the items are decoded
\* from the length octets of the IE (decPDUSessionResourceSetupItemCxtReq)
decPDUSessionResourceSetupListCtxReq(g, c, length) ==
    IF ~Has(g, length) \/ length < 1 THEN Panic(g)
    ELSE Rest(decPDUSessionResourceSetupItems(
                  [ g EXCEPT !.pdu = SubSeq(g.pdu, 2, length) ], c, 4, 0,
                  g.pdu[1] + 1),
              Drop(g.pdu, length))

\* 9.3.1.52 PDU Session Type: one octet; length is not used
decPDUSessionType(g, length) == Skip(g, 1)

\* 9.3.4.1 QoS Flow Setup Request List: the number of items less one in
\* the first six bits; every item shifts the bit field by three bits and
\* keeps the seven bits at its front in the camper
decQosFlowSetupRequestList(g, c, length) ==
    IF ~Has(g, length) \/ length < 1 THEN Panic(g)
    ELSE LET itemNum == (g.pdu[1] \div 4) + 1
             qoslist == ShiftLeft(BitField(Take(g.pdu, length), 0), 6).Value
             \* decQosFlowSetupRequestItem, decQosFlowIdentifier
             RECURSIVE loop(_, _, _)
             loop(h, item, i) ==
                 IF h.panic \/ i = itemNum THEN h
                 ELSE IF c = 0 THEN Panic(h)
                 ELSE LET shifted == ShiftLeft(BitField(item, 0), 3).Value
                      IN loop(SetCamper(h, c, [ CamperAt(h, c) EXCEPT
                                                  !.QosFlowID = shifted[1] \div 2 ]),
                              shifted, i + 1)
         IN loop(Skip(g, length), qoslist, 0)

\* 9.3.2.2 UP Transport Layer Information: behind three bits of preamble
\* the transport layer address (an extension marker, the number of bits
\* less one, the address at the next octet boundary) and the GTP-TEID
decUPTransportLayerInformation(g, length) ==
    IF ~Has(g, length) \/ length < 1 THEN Panic(g)
    ELSE LET tli == ShiftLeft(BitField(Take(g.pdu, length), 0), 3).Value
             \* decTransportLayerAddress
             tla == ShiftLeft(BitField(tli, 0), 1).Value
             bits == (tla[1] + 1) % 256
             addrAt == ShiftLeft(BitField(Drop(tla, 1), 0), (length * 8 - 4) % 8).Value
             octLen == (((bits + 255) % 256) \div 8) + 1
         IN IF Len(addrAt) < octLen + 4 THEN Panic(g)
            ELSE [ Skip(g, length) EXCEPT
                     !.gnb.Recv = [ GTPuPeerAddr |-> Take(addrAt, octLen),
                                    \* decGTPTEID
                                    GTPuPeerTEID |-> SubSeq(addrAt, octLen + 1,
                                                            octLen + 4) ] ]

\* a decoder that has no camper to return: c and no error
SameCamper(h, c) == IF h.panic THEN h ELSE [ h EXCEPT !.c = c, !.err = "" ]

\* decProtocolIE, the switch on the id: the decoder of the id on the
\* octets behind the length
decProtocolIEValue(g2, c, id, length) ==
    CASE id = idAMFUENGAPID -> decAMFUENGAPID(g2, length)
      [] id = idNASPDU -> SameCamper(decNASPDU(g2, c), c)
      [] id = idPDUSessResSetupListCxtReq ->
           SameCamper(decPDUSessionResourceSetupListCtxReq(g2, c, length), c)
      [] id = idPDUSessResSetupListSUReq ->
           SameCamper(decPDUSessionResourceSetupListSUReq(g2, c, length), c)
      [] id = idRANUENGAPID -> decRANUENGAPID(g2, c, length)
      [] id = idPDUSessionType -> SameCamper(decPDUSessionType(g2, length), c)
      [] id = idQosFlowSetupRequestList ->
           SameCamper(decQosFlowSetupRequestList(g2, c, length), c)
      [] id = idULNGUUPTNLInformation ->
           SameCamper(decUPTransportLayerInformation(g2, length), c)
      [] OTHER -> SameCamper(Skip(g2, length), c)

\* what was read for an IE is noted: its id, its length, the octets left
\* before and after its value
NotedIE(g3, id, length, before) ==
    IF g3.panic THEN g3
    ELSE [ g3 EXCEPT !.ies =
             Append(@, [ id |-> id, length |-> length, before |-> before,
                         after |-> Len(g3.pdu), err |-> g3.err ]) ]

\* decProtocolIE behind the id: criticality, one octet of length, value
decProtocolIEBody(g1, c, id) ==
    IF ~Has(g1, 2) THEN Panic(g1)
    ELSE NotedIE(decProtocolIEValue(Skip(g1, 2), c, id, g1.pdu[2]), id,
                 g1.pdu[2], Len(g1.pdu) - 2)

\* decProtocolIE: id, criticality, one octet of length, then the decoder of
\* the id; the camper and the error it returns are in c and err
decProtocolIE(g, c) ==
    IF g.panic THEN g
    ELSE IF Len(g.pdu) < 2
    THEN [ g EXCEPT !.c = c, !.err = "remaining pdu length is too short." ]
    ELSE decProtocolIEBody(IF Uint16(g.pdu) \in ieID THEN Skip(g, 2)
                           ELSE Log(Skip(g, 2), "Unsupported Protocol IE"),
                           c, Uint16(g.pdu))

\* the loop of decProtocolIEContainer: one decProtocolIE after the other,
\* each given the camper the one before returned.  Once fewer than two
\* octets are left every further decProtocolIE returns the same camper
\* and the same error.
RECURSIVE decProtocolIEs(_, _, _)
decProtocolIEs(h, idx, num) ==
    IF h.panic \/ idx = num THEN h
    ELSE decProtocolIEs(decProtocolIE(h, h.c),
                        IF Len(h.pdu) < 2 THEN num ELSE idx + 1, num)

\* decProtocolIEContainer: the number of IEs, then the IEs; the error of
\* the last one is returned
decProtocolIEContainer(g, c) ==
    IF g.panic THEN g
    ELSE IF Len(g.pdu) < 3
    THEN [ g EXCEPT !.c = 0, !.err = "remaining pdu length is too short." ]
    ELSE decProtocolIEs([ Skip(g, 3) EXCEPT !.c = c, !.err = "" ], 0,
                        Uint16(Drop(g.pdu, 1)))

\* the end of Decode: DecodeError is the error of the container, or the
\* decode error of the UE of the camper the container returned
DecodeErrorOf(g2) ==
    IF g2.panic THEN g2
    ELSE IF g2.c = 0 THEN [ g2 EXCEPT !.gnb.DecodeError = g2.err ]
    ELSE IF CamperAt(g2, g2.c).UE = 0 THEN Panic(g2)
    ELSE [ g2 EXCEPT !.gnb.DecodeError =
             IF g2.ues[CamperAt(g2, g2.c).UE].DecodeError # ""
             THEN g2.ues[CamperAt(g2, g2.c).UE].DecodeError
             ELSE g2.err ]

\* Decode of the gNB: the decode error is cleared, a procedure code without
\* a name is logged, the length of the PDU is read, the IEs are decoded
GNBDecode(gnb, ues, pdu) ==
    LET g0 == [ gnb |-> [ gnb EXCEPT !.DecodeError = "" ], ues |-> ues,
                pdu |-> pdu, panic |-> FALSE, log |-> << >>, tmp |-> << >>,
                c |-> 0, err |-> "", len |-> 0, ies |-> << >>,
                delivered |-> << >> ]
        hdr == decNgapPdu(g0)
        g1 == IF hdr.procCode \in procCodeStr THEN hdr.g
              ELSE Log(hdr.g, "unsupported procedure")
    IN DecodeErrorOf(decProtocolIEContainer(DecLengthDeterminant(g1), 0))

\* ------------------------------------------------------------------------
\* NGAP: the uplink messages
\* ------------------------------------------------------------------------

ignore == 1

ULInfoNR == 1
rrcMoSignalling == 3
minGNBIDSize == 22
nrCellIDSize == 36

\* the gNB of the configuration file (NewNGAP): no camper yet
GNBConfig ==
    [ GlobalGNBID |-> [ MCC |-> 208, MNC |-> 93, GNBID |-> 1 ],
      RANUENGAPID |-> 0,
      ULInfoNR |-> [ NRCGI |-> [ PLMN |-> [ MCC |-> 208, MNC |-> 93 ], NRCellID |-> 1 ],
                     TAI |-> [ PLMN |-> [ MCC |-> 208, MNC |-> 93 ], TAC |-> 1 ] ],
      Recv |-> [ GTPuPeerAddr |-> << >>, GTPuPeerTEID |-> << 0, 0, 0, 0 >> ],
      Camper |-> << >>,
      DecodeError |-> "" ]

\* the first three octets of a PDU: its type, the procedure code, the
\* criticality
encNgapPdu(pduType, procCode, criticality) ==
    EncChoice(pduType, 0, 2, TRUE).bf.Value
       \o EncInteger(procCode, 0, 255, FALSE).v
       \o EncEnumerated(criticality, 0, 2, FALSE).bf.Value

\* the preamble of the container and the number of IEs it declares
encProtocolIEContainer(num) ==
    EncSequence(TRUE, 0, 0).bf.Value \o EncSequenceOf(num, 0, 65535, FALSE).v

\* the id and the criticality of a Protocol IE
encProtocolIE(id, criticality) ==
    EncInteger(id, 0, 65535, FALSE).v
       \o EncEnumerated(criticality, 0, 2, FALSE).bf.Value

\* a Protocol IE: head, the length determinant of the value, the value
ProtocolIE(head, v) == head \o EncLengthDeterminant(Len(v), 0, 0).bf.Value \o v

\* 9.3.3.1 AMF UE NGAP ID: the AmfId of the camper
encAMFUENGAPID(gnb, c) ==
    ProtocolIE(encProtocolIE(idAMFUENGAPID, reject),
               EncInteger(gnb.Camper[c].AmfId, 0, WideMax, FALSE).v)

\* 9.3.3.2 RAN UE NGAP ID: the RANUENGAPID of the gNB
encRANUENGAPID(gnb) ==
    ProtocolIE(encProtocolIE(idRANUENGAPID, reject),
               EncInteger(gnb.RANUENGAPID, 0, WideMax, FALSE).v)

\* an octet string as the octets of a value
octetsOf(str) == str.bf.Value \o str.v

\* encNASPDU without c.RecvMsg = nil
encNASPDUKeepsRecvMsg(gnb, c, msgs) ==
    IF gnb.Camper[c].RecvMsg = 0 THEN [ gnb |-> gnb, v |-> << >> ]
    ELSE [ gnb |-> gnb,
           v |-> ProtocolIE(encProtocolIE(idNASPDU, reject),
                            octetsOf(EncOctetString(msgs[gnb.Camper[c].RecvMsg],
                                                    0, 0, FALSE))) ]

\* 9.3.3.4 NAS-PDU: the PDU c.RecvMsg points to, as an octet string, and
\* c.RecvMsg becomes nil; nothing at all if c.RecvMsg is nil.  msgs are
\* the NAS PDUs RecvMsg can point to.
encNASPDU(gnb, c, msgs) ==
    IF gnb.Camper[c].RecvMsg = 0 THEN [ gnb |-> gnb, v |-> << >> ]
    ELSE [ gnb |-> [ gnb EXCEPT !.Camper[c].RecvMsg = 0 ],
           v |-> ProtocolIE(encProtocolIE(idNASPDU, reject),
                            octetsOf(EncOctetString(msgs[gnb.Camper[c].RecvMsg],
                                                    0, 0, FALSE))) ]

\* 9.3.3.5 PLMN Identity
encPLMNIdentity(mcc, mnc) ==
    EncOctetString(<< ((mcc % 1000) \div 100) + 16 * ((mcc % 100) \div 10),
                      BitOr(mcc % 10, 240),
                      ((mnc % 100) \div 10) + 16 * (mnc % 10) >>,
                   3, 3, FALSE).v

\* 9.3.3.10 TAC: the last three octets of the 64 bit value
encTAC(tac) == EncOctetString(Drop(PutUint32(tac), 1), 3, 3, FALSE).v

\* the length of the gNB id: at least minGNBIDSize bits
gnbIDLen(gnbid) ==
    IF BitsLen(gnbid) < minGNBIDSize THEN minGNBIDSize ELSE BitsLen(gnbid)

\* 9.3.1.7 NR Cell Identity: the gNB id, then the cell id in the rest of
\* the nrCellIDSize bits
encNRCellIdentity(gnb, cellid) ==
    MergeBitField(
        ShiftLeftMost(BitField(PutUint32(gnb.GlobalGNBID.GNBID),
                               gnbIDLen(gnb.GlobalGNBID.GNBID))),
        ShiftLeftMost(BitField(<< 0, 0, 0, 0 >> \o PutUint32(cellid),
                               nrCellIDSize - gnbIDLen(gnb.GlobalGNBID.GNBID))))

\* the octets v in front of the bit field b2
octetsThenBits(v, b2) ==
    [ b2 EXCEPT !.Value = v \o b2.Value, !.Len = Len(v) * 8 + b2.Len ]

\* 9.3.1.7 NR CGI: the preamble, and PLMN and cell identity as one bit
\* field
encNRCGI(gnb, nrcgi) ==
    [ pre |-> EncSequence(TRUE, 1, 0).bf,
      cont |-> octetsThenBits(encPLMNIdentity(nrcgi.PLMN.MCC, nrcgi.PLMN.MNC),
                              encNRCellIdentity(gnb, nrcgi.NRCellID)) ]

\* 9.3.3.11 TAI
encTAI(tai) ==
    [ b |-> EncSequence(TRUE, 1, 0).bf,
      v |-> encPLMNIdentity(tai.PLMN.MCC, tai.PLMN.MNC) \o encTAC(tai.TAC) ]

\* the NR CGI cgi and the TAI tai behind the preamble of the sequence
locationNR(cgi, tai) ==
    [ b |-> MergeBitField(EncSequence(TRUE, 2, 0).bf, cgi.pre),
      v |-> MergeBitField(cgi.cont, tai.b).Value \o tai.v ]

encUserLocationInformationNR(gnb, info) ==
    locationNR(encNRCGI(gnb, info.NRCGI), encTAI(info.TAI))

\* the choice in front of the NR information nr
locationChoice(nr) ==
    MergeBitField(EncChoice(ULInfoNR, 0, 2, FALSE).bf, nr.b).Value \o nr.v

\* 9.3.1.16 User Location Information: the NR choice with the NR CGI and
\* the TAI of the gNB
encUserLocationInformation(gnb) ==
    ProtocolIE(encProtocolIE(idUserLocationInformation, ignore),
               locationChoice(encUserLocationInformationNR(gnb, gnb.ULInfoNR)))

\* RRC Establishment Cause of 9.2.5.1 INITIAL UE MESSAGE
encRRCEstablishmentCause(cause) ==
    ProtocolIE(encProtocolIE(idRRCEstablishmentCause, ignore),
               EncEnumerated(cause, 0, 14, TRUE).bf.Value)

\* UE Context Request of 9.2.5.1 INITIAL UE MESSAGE
encUEContextRequest ==
    ProtocolIE(encProtocolIE(idUEContextRequest, ignore),
               EncEnumerated(0, 0, 0, TRUE).bf.Value)

\* a PDU: the first three octets, then the length determinant of v and v,
\* the container with its IEs
NgapPdu(procCode, v) ==
    encNgapPdu(initiatingMessage, procCode, ignore)
       \o EncLengthDeterminant(Len(v), 0, 0).bf.Value \o v

\* an uplink message for the camper c: the IEs before the NAS-PDU, the
\* NAS-PDU, the IEs after it.  nas is the index of the NAS PDU the message
\* carries (0: none).
UplinkMessage(gnb, c, procCode, num, before, naspdu, after) ==
    [ gnb |-> naspdu.gnb, panic |-> FALSE, nas |-> gnb.Camper[c].RecvMsg,
      pdu |-> NgapPdu(procCode,
                      encProtocolIEContainer(num) \o before \o naspdu.v \o after) ]

\* 9.2.5.1 INITIAL UE MESSAGE: RAN UE NGAP ID, NAS-PDU, User Location
\* Information, RRC Establishment Cause, UE Context Request; the camper of
\* ue is dereferenced for its RecvMsg
MakeInitialUEMessage(gnb, ue, msgs) ==
    IF LookupCamperByUE(gnb, ue) = 0
    THEN [ gnb |-> gnb, pdu |-> << >>, panic |-> TRUE, nas |-> 0 ]
    ELSE UplinkMessage(gnb, LookupCamperByUE(gnb, ue), idInitialUEMessage, 5,
                       encRANUENGAPID(gnb),
                       encNASPDU(gnb, LookupCamperByUE(gnb, ue), msgs),
                       encUserLocationInformation(gnb)
                          \o encRRCEstablishmentCause(rrcMoSignalling)
                          \o encUEContextRequest)

\* 9.2.5.3 UPLINK NAS TRANSPORT: AMF UE NGAP ID, RAN UE NGAP ID, NAS-PDU,
\* User Location Information; the camper of ue is dereferenced for its
\* AmfId
MakeUplinkNASTransport(gnb, ue, msgs) ==
    IF LookupCamperByUE(gnb, ue) = 0
    THEN [ gnb |-> gnb, pdu |-> << >>, panic |-> TRUE, nas |-> 0 ]
    ELSE UplinkMessage(gnb, LookupCamperByUE(gnb, ue), idUplinkNASTransport, 4,
                       encAMFUENGAPID(gnb, LookupCamperByUE(gnb, ue))
                          \o encRANUENGAPID(gnb),
                       encNASPDU(gnb, LookupCamperByUE(gnb, ue), msgs),
                       encUserLocationInformation(gnb))


\* ------------------------------------------------------------------------
\* GTPv1-U (encoding/gtp): a tunnel is a record with the fields of
\* `type GTP struct` the header depends on
\* ------------------------------------------------------------------------

gtpuVersion == 32
protocolTypeGTP == 16
hasExtensionHeader == 4
messageTypeTPDU == 255

extHeaderTypeNone == 0
extHeaderTypePDUSessionContainer == 133

pduTypeUL == 1

NewGTP(lteid, pteid) ==
    [ LocalTEID |-> lteid, PeerTEID |-> pteid, QosFlowID |-> 0,
      HasExtensionHeader |-> FALSE ]

SetQosFlowID(gtp, id) == [ gtp EXCEPT !.QosFlowID = id ]

SetExtensionHeader(gtp, flag) == [ gtp EXCEPT !.HasExtensionHeader = flag ]

\* 5.5.2.2 UL PDU SESSION INFORMATION (PDU Type 1)
encULPduSessionInformation(gtp) == << pduTypeUL * 16, gtp.QosFlowID >>

\* 5.2.1 General format of the GTP-U Extension Header: the type octet, then
\* for a PDU Session Container its length in 4 octet units and its content
encExtensionHeader(gtp, extHeaderType) ==
    IF extHeaderType = extHeaderTypeNone THEN << extHeaderType >>
    ELSE IF extHeaderType # extHeaderTypePDUSessionContainer THEN << >>
    ELSE LET content == encULPduSessionInformation(gtp)
         IN IF Len(content) % 4 # 2 THEN << extHeaderType >>
            ELSE << extHeaderType, ((Len(content) + 2) \div 4) % 256 >> \o content

\* 5.1 General format: flags, message type, length, TEID, then the
\* extension headers of extHeaders, to which extHeaderTypeNone is always
\* appended, behind three octets of padding if the tunnel has the flag
encGTPHeader(gtp, payloadLen) ==
    LET versAndFlags ==
            BitOr(BitOr(gtpuVersion, protocolTypeGTP),
                  IF gtp.HasExtensionHeader THEN hasExtensionHeader ELSE 0)
        extHeaders ==
            (IF gtp.HasExtensionHeader
             THEN << extHeaderTypePDUSessionContainer >> ELSE << >>)
               \o << extHeaderTypeNone >>
        heads == [i \in 1..Len(extHeaders) |-> encExtensionHeader(gtp, extHeaders[i])]
        joined == IF Len(heads) = 1 THEN heads[1] ELSE heads[1] \o heads[2]
        extHead == IF gtp.HasExtensionHeader THEN << 0, 0, 0 >> \o joined ELSE joined
        gtpLen == payloadLen + Len(extHead)
    IN << versAndFlags, messageTypeTPDU >> \o PutUint16(gtpLen % 65536)
          \o PutUint32(gtp.PeerTEID) \o extHead

\* the payload behind the header: 8 octets are skipped, or 16 if the flags
\* octet has the extension header bit; a frame shorter than that makes the
\* slice expression panic
decGTPHeader(payload) ==
    IF Len(payload) < 1 THEN [ raw |-> << >>, panic |-> TRUE ]
    ELSE LET versAndFlags == payload[1]
             rest == Drop(payload, 1)
             n == IF BitAnd(versAndFlags, hasExtensionHeader) = 0 THEN 7 ELSE 15
         IN IF Len(rest) < n THEN [ raw |-> << >>, panic |-> TRUE ]
            ELSE [ raw |-> Drop(rest, n), panic |-> FALSE ]

Encap(gtp, raw) == encGTPHeader(gtp, Len(raw)) \o raw

Decap(gtp, payload) == decGTPHeader(payload)


\* ------------------------------------------------------------------------
\* The state machine of the gNB: campers, uplink and downlink NGAP
\* ------------------------------------------------------------------------

\* the UEs of a session
NumUE == 2

\* bound on the CampIn calls of a run
MaxCampers == 2

\* bound on the NAS PDUs the UEs hand to the gNB in a run
MaxMsgs == 2

NoNgap ==
    [ name |-> "NewNGAP", ue |-> 0, kind |-> "", order |-> "", amf |-> 0, ran |-> 0,
      pdu |-> << >>, nas |-> 0, log |-> << >>, ies |-> << >>,
      delivered |-> << >>, left |-> 0 ]

\* a Protocol IE as the AMF encodes it
AmfIE(id, v) ==
    PutUint16(id) \o << 0 >> \o EncLengthDeterminant(Len(v), 0, 0).bf.Value \o v

\* an NGAP PDU as the AMF encodes it: type, procedure code, criticality,
\* length, container of the IEs
AmfPdu(pduType, procCode, ies) ==
    LET RECURSIVE Cat(_)
        Cat(s) == IF s = << >> THEN << >> ELSE Head(s) \o Cat(Tail(s))
        v == << 0 >> \o PutUint16(Len(ies)) \o Cat(ies)
    IN << pduType * 32, procCode, 0 >>
          \o EncLengthDeterminant(Len(v), 0, 0).bf.Value \o v

\* an IE id that neither ieID nor decProtocolIE knows, and its values: a
\* short one and one of 128 octets, whose length takes two octets
UnknownIEId == 200
ShortValue == << 1, 2, 3 >>
LongValue == [i \in 1..128 |-> i]

\* a procedure code procCodeStr does not hold
UnknownProcCode == 99

\* 9.2.1.1 PDU Session Resource Setup List SUReq with one item: session
\* id 5, no NAS-PDU, S-NSSAI with SD, and a transfer with the UL NGU UP
\* TNL Information (address 10.0.0.1, TEID 1), the PDU Session Type and a
\* QoS Flow Setup Request List with flow 9
SetupListSUReq ==
    LET transfer ==
            << 0 >> \o PutUint16(3)
              \o AmfIE(idULNGUUPTNLInformation, << 3, 224, 160, 0, 0, 16, 0, 0, 0, 1 >>)
              \o AmfIE(idPDUSessionType, << 0 >>)
              \o AmfIE(idQosFlowSetupRequestList, << 0, 9, 0, 0 >>)
    IN << 0, 0, 5, 64, 1, 1, 2, 3 >>
          \o EncLengthDeterminant(Len(transfer), 0, 0).bf.Value \o transfer

\* the IEs of the AMF with the two ids and with a NAS PDU
AmfIdIE(a) == AmfIE(idAMFUENGAPID, PutUint16(a))
RanIdIE(r) == AmfIE(idRANUENGAPID, PutUint16(r))
NasIE(pdu) == AmfIE(idNASPDU, << Len(pdu) >> \o pdu)

\* a downlink PDU offered to the gNB: kind names the PDU, order the order
\* of its two id IEs, amf and ran are the ids they hold
Frame(kind, order, a, r, pdu) ==
    [ kind |-> kind, order |-> order, amf |-> a, ran |-> r, pdu |-> pdu ]

\* The downlink PDUs offered to the gNB, auth being the NAS PDU of an
\* Authentication Request.  The NAS-PDU IE of ShortNASPDU declares two
\* octets and holds the length octet of an octet string of three.  The RAN
\* UE NGAP ID MaxCampers is the id of no camper.
DownlinkFrames(auth) ==
       { Frame("DownlinkNASTransport", "amf-ran", a, r,
               AmfPdu(initiatingMessage, idDownlinkNASTransport,
                      << AmfIdIE(a), RanIdIE(r), NasIE(auth) >>))
           : a \in { 1, 2 }, r \in { 0, MaxCampers - 1, MaxCampers } }
       \cup
       { Frame("DownlinkNASTransport", "ran-amf", 1, 0,
               AmfPdu(initiatingMessage, idDownlinkNASTransport,
                      << RanIdIE(0), AmfIdIE(1), NasIE(auth) >>)),
         Frame("UnknownIE", "amf-ran", 1, 0,
               AmfPdu(initiatingMessage, idDownlinkNASTransport,
                      << AmfIdIE(1), RanIdIE(0), AmfIE(UnknownIEId, ShortValue),
                         NasIE(DeregistrationAcceptPdu) >>)),
         Frame("LongUnknownIE", "amf-ran", 1, 0,
               AmfPdu(initiatingMessage, idDownlinkNASTransport,
                      << AmfIdIE(1), RanIdIE(0), AmfIE(UnknownIEId, LongValue),
                         NasIE(DeregistrationAcceptPdu) >>)),
         Frame("ShortNASPDU", "amf-ran", 1, 0,
               AmfPdu(initiatingMessage, idDownlinkNASTransport,
                      << AmfIdIE(1), RanIdIE(0),
                         AmfIE(idNASPDU, << Len(DeregistrationAcceptPdu),
                                            DeregistrationAcceptPdu[1] >>)
                            \o Drop(DeregistrationAcceptPdu, 1) >>)),
         Frame("UnknownRanIdThenUnknownIE", "amf-ran", 1, MaxCampers,
               AmfPdu(initiatingMessage, idDownlinkNASTransport,
                      << AmfIdIE(1), RanIdIE(MaxCampers),
                         AmfIE(UnknownIEId, ShortValue) >>)),
         Frame("UnknownProcedure", "amf-ran", 1, 0,
               AmfPdu(initiatingMessage, UnknownProcCode,
                      << AmfIdIE(1), RanIdIE(0), AmfIE(UnknownIEId, ShortValue) >>)),
         Frame("UnknownProcedure", "ran-amf", 1, 0,
               AmfPdu(initiatingMessage, UnknownProcCode,
                      << RanIdIE(0), AmfIdIE(1), AmfIE(UnknownIEId, ShortValue) >>)),
         Frame("UnknownProcedure", "", 0, 0,
               AmfPdu(initiatingMessage, UnknownProcCode, << >>)),
         Frame("PDUSessionResourceSetupRequest", "amf-ran", 1, 0,
               AmfPdu(initiatingMessage, idPDUSessResSetup,
                      << AmfIdIE(1), RanIdIE(0),
                         AmfIE(idPDUSessResSetupListSUReq, SetupListSUReq) >>)),
         Frame("NGSetupResponse", "", 0, 0,
               AmfPdu(successfulOutcome, idNGSetup,
                      << AmfIE(idAMFName, << 2, 0, 97, 109, 102 >>),
                         AmfIE(idRelativeAMFCapacity, << 255 >>) >>)) }

NgapDownlink(ue0) == DownlinkFrames(AuthenticationRequestPdu(ue0, FALSE))

\* a Downlink NAS Transport for the first RAN UE NGAP ID that carries
\* naspdu
TransportOf(naspdu) ==
    AmfPdu(initiatingMessage, idDownlinkNASTransport,
           << AmfIdIE(1), RanIdIE(0), NasIE(naspdu) >>)

\* The truncated downlink PDUs offered to the gNB: every proper prefix of
\* a Downlink NAS Transport with the NAS PDU auth, and the transports of
\* every proper prefix of auth; a is the number of octets that are left
TruncatedFrames(auth) ==
       { Frame("Truncated", "amf-ran", n, 0, Take(TransportOf(auth), n))
           : n \in 0..(Len(TransportOf(auth)) - 1) }
       \cup
       { Frame("TruncatedNAS", "amf-ran", n, 0, TransportOf(Take(auth, n)))
           : n \in 0..(Len(auth) - 1) }

TruncatedDownlink(ue0) == TruncatedFrames(AuthenticationRequestPdu(ue0, FALSE))


\* bound on the uplink messages built in a run
MaxUplink == 2

\* ------------------------------------------------------------------------
\* The state machine of a GTP-U tunnel
\* ------------------------------------------------------------------------


\* tunnel endpoint identifiers
TEIDs == { 1, 16909060 }

\* QoS flow identifiers
QFIs == { 0, 9 }

\* bound on the octets of a payload
MaxPayload == 2

\* the payloads: octet strings of up to MaxPayload octets
Payloads == UNION { [1..n -> { 0, 69 }] : n \in 0..MaxPayload }

NoGtpCall ==
    [ name |-> "NewGTP", raw |-> << >>, frame |-> << >>, out |-> << >>,
      panic |-> FALSE, loop |-> FALSE ]

\* frames from the peer: a G-PDU of version 1 without and with extension
\* header, one of version 2, one cut behind the TEID with the E bit set,
\* one cut within the TEID
PeerFrames ==
    { << 48, 255, 0, 2, 0, 0, 0, 1, 69, 0 >>,
      << 52, 255, 0, 10, 0, 0, 0, 1, 0, 0, 0, 133, 1, 16, 9, 0, 69, 0 >>,
      << 80, 255, 0, 2, 0, 0, 0, 1, 69, 0 >>,
      << 52, 255, 0, 0, 0, 0, 0, 1 >>,
      << 48, 255, 0, 0, 0, 0 >> }

\* ------------------------------------------------------------------------
\* The state machine of the control-plane receive (cmd/gnbsim_sctp.go recv,
\* example/example.go recvfromAMF): the caller starts a reader goroutine
\* and waits in a select for the reader's channel or for time.After.  Time
\* is counted in seconds from the moment the select is entered; it passes
\* only while no case of the select is ready.
\* ------------------------------------------------------------------------


recvTimer == 5
defaultTimer == 10

\* the timeouts the callers pass: 0 asks for the default
Timeouts == { 0, 3 }

\* bound on the receives of a run
MaxRecv == 3

\* bound on the seconds counted in one select
MaxClock == 11

\* if t == 0 { t = recvTimer }, and the same with defaultTimer
TimerOf(driver, t) ==
    IF t # 0 THEN t ELSE IF driver = "cmd" THEN recvTimer ELSE defaultTimer

\* a timer that never fires
TimeAfterNever(t, elapsed) == FALSE

\* time.After(t * time.Second) has fired
TimeAfter(t, elapsed) == elapsed >= t

\* bound on the sends of a run
MaxSend == 2

\* a Downlink NAS Transport whose last IE names a RAN UE NGAP ID no camper
\* has
UnknownRanIdFrame ==
    Frame("UnknownRanId", "amf-ran", 1, MaxCampers,
          AmfPdu(initiatingMessage, idDownlinkNASTransport,
                 << AmfIdIE(1), RanIdIE(MaxCampers) >>))

\* the PDUs the AMF sends to a session: an NG Setup Response, a Downlink
\* NAS Transport for the first RAN UE NGAP ID, and the one above
SessionFrames(ue0) ==
    { f \in NgapDownlink(ue0) :
         \/ f.kind = "NGSetupResponse"
         \/ /\ f.kind = "DownlinkNASTransport" /\ f.order = "amf-ran"
            /\ f.amf = 1 /\ f.ran = 0 }
       \cup { UnknownRanIdFrame }

\* what s.gnb.Decode(&buf) in the reader comes to: a run-time panic, a
\* decode error left in gnb.DecodeError, or neither
ReadOutcome(g) ==
    IF g.panic THEN "panic"
    ELSE IF g.gnb.DecodeError # "" THEN "decode error" ELSE "frame"

\* send of cmd: the error of SCTPWrite is wrapped in a local variable and
\* dropped
send(s, outcome) ==
    [ s EXCEPT !.sent = @ + 1, !.sendFailed = @ \/ outcome = "error" ]

\* sendtoAMF of the example: log.Fatalf on the error of SCTPWrite
sendtoAMF(s, outcome) ==
    [ s EXCEPT !.sent = @ + 1, !.sendFailed = @ \/ outcome = "error",
               !.terminated = @ \/ outcome = "error" ]

\* ------------------------------------------------------------------------
\* The calls of the packed encoding rules and their inputs
\* ------------------------------------------------------------------------

\* bound on the octets of a bit field that is merged
MaxOctets == 2

\* the octets the bit fields are made of
OctetPatterns == { 129, 255 }

\* the bit fields that are merged: up to MaxOctets equal octets, and a Len
\* of no more bits than the octets hold (0: none, or octet aligned)
BitFields ==
    { bf \in { BitField([i \in 1..n |-> o], l) :
                 n \in 0..MaxOctets, o \in OctetPatterns, l \in 0..(8 * MaxOctets) } :
         bf.Len <= 8 * Len(bf.Value) }

\* the ranges of the constrained whole numbers: one of every case of the
\* switch on inputRange, with and without a lower bound of 0
WholeRanges ==
    { << 0, 0 >>, << 1, 1 >>, << 0, 7 >>, << 3, 10 >>, << 0, 255 >>, << 1, 256 >>,
      << 0, 65535 >>, << 1, 65536 >>, << 0, 65536 >>, << 1, 65537 >>,
      << 0, WideMax >> }

\* the whole numbers encoded for a range: its ends, the values next to
\* them, and the values where the number of octets changes
WholeInputs(min, max) ==
    { v \in { min - 1, min, min + 1, min + 255, min + 256, min + 65535,
              max - 1, max, IF max = WideMax THEN max ELSE max + 1 } : v >= 0 }

\* the lengths given to EncLengthDeterminant and their ranges
Lengths == { 0, 1, 127, 128, 16383, 16384, 16385 }
LengthRanges == { << 0, 0 >>, << 0, 255 >>, << 1, 65535 >>, << 0, 65536 >> }

\* the sizes of the NAS PDUs given to encNASPDU
NasPduSizes == { 1, 127, 128, 16381, 16383, 16384 }

\* a gNB whose one camper holds the pointer to the first of the NAS PDUs
GNBWithMessage ==
    [ CampIn(GNBConfig, 0, 1).gnb EXCEPT !.Camper[1].RecvMsg = 1 ]

NoPer ==
    [ name |-> "", in1 |-> BitField(<< >>, 0), in2 |-> BitField(<< >>, 0),
      input |-> 0, min |-> 0, max |-> 0, out |-> BitField(<< >>, 0),
      err |-> "", outLen |-> 0, head |-> << >> ]

\* the seconds runUPlane waits between two GETs
probeTimer == 5

\* bound on the GETs of a run
MaxGets == 4

NoProbe ==
    [ pc |-> "idle", elapsed |-> 0, cancelled |-> FALSE, gets |-> 0,
      status |-> "", fatal |-> FALSE ]

NoSession ==
    [ driver |-> "", pc |-> "idle", timer |-> 0, elapsed |-> 0, chan |-> 0,
      reader |-> FALSE, orphans |-> 0, err |-> "", done |-> 0,
      terminated |-> FALSE, sent |-> 0, sendFailed |-> FALSE,
      decodeErr |-> "", lateDecode |-> FALSE ]


\* ------------------------------------------------------------------------
\* The state: one UE and the calls made on it; a gNB with its UEs; a GTP-U
\* tunnel; a control-plane receive
\* ------------------------------------------------------------------------

VARIABLES
    ue,        \* the UE
    crashed,   \* the process ended in a run-time panic
    op,        \* the last call: its name, the 5GMM state it found and, for
               \* Receive, the message
    out,       \* what the last make-call returned: pdu, its plaintext
    dlog,      \* the dprint lines of the last Receive
    sentRR,    \* the Registration Request the UE sent first
    emitted,   \* security protected messages emitted since PowerON
    lastSeq,   \* sequence number octet of the last of them (-1: none)
    lastCount, \* count fed into the MAC of the last of them (-1: none)
    smcAsked   \* the last accepted Security Mode Command asked for the
               \* initial NAS message and no Security Mode Complete followed

nasVars == << ue, crashed, op, out, dlog, sentRR, emitted, lastSeq, lastCount, smcAsked >>

VARIABLES
    gnb,          \* the gNB
    RanUeNgapId,  \* the package counter CampIn takes the RAN UE NGAP ids from
    ues,          \* the UEs, by index
    msgs,         \* the NAS PDUs handed to RecvfromUE, each with the UE
                  \* whose NAS layer produced it, in the order they were
                  \* produced
    uplink,       \* for every uplink message built, in order: the UE and the
                  \* index in msgs of the NAS PDU it carries (0: none)
    ngap,         \* the last call on the gNB and what it returned
    ngapCrashed   \* the process ended in a run-time panic

ngapVars == << gnb, RanUeNgapId, ues, msgs, uplink, ngap, ngapCrashed >>

VARIABLES
    gtp,      \* the tunnel
    gtpCall   \* the last call on it: its name, the payload given to Encap,
              \* the frame, what Decap returned, whether it panicked, and
              \* whether the frame given to Decap is the one Encap made

gtpVars == << gtp, gtpCall >>

VARIABLES
    session   \* driver: which of the two programs runs; pc: "idle" between
              \* two receives, "select" while the caller waits; timer: the
              \* seconds given to time.After; elapsed: the seconds waited;
              \* chan: the values in the reader's channel; reader: whether
              \* the reader of this receive still reads; orphans: readers of
              \* receives that timed out and still read; err: what the last
              \* receive returned; done: the receives that returned;
              \* terminated: the process ended; lateDecode: a reader
              \* called Decode after its receive had returned

VARIABLES
    probe     \* the HTTP probe task of the example (runUPlane): pc: where
              \* it is; elapsed: seconds since its select was entered;
              \* cancelled: the context is cancelled; gets: the GETs issued;
              \* status: what the last GET gave; fatal: log.Fatalf ended
              \* the process

recvVars == << session, probe >>

VARIABLES
    per       \* the last call of a function of the packed encoding rules:
              \* its name, its inputs and what it returned

perVars == << per >>

vars == << nasVars, ngapVars, gtpVars, recvVars, perVars >>

\* bound on the protected messages a run emits
MaxNasCount == 2

\* bound on the protected messages a run emits when only the responses
\* that need no further downlink are made: one more than the sequence
\* number octet can tell apart
MaxWrapCount == 257

NoOut == [ pdu |-> << >>, plain |-> << >>, prot |-> FALSE, asked |-> FALSE ]

NoOp == [ name |-> "PowerON", kind |-> "", sht |-> 0, mac |-> FALSE,
          valid |-> FALSE, from |-> state5GMMDeregistared ]

Call(name) == [ NoOp EXCEPT !.name = name, !.from = ue.state5GMM ]

Init ==
    /\ ue \in { NewNAS(cfg) : cfg \in UEConfigs }
    /\ crashed = FALSE
    /\ op = NoOp
    /\ out = NoOut
    /\ dlog = << >>
    /\ sentRR = << >>
    /\ emitted = 0
    /\ lastSeq = -1
    /\ lastCount = -1
    /\ smcAsked = FALSE
    /\ gnb = GNBConfig
    /\ RanUeNgapId = 0
    /\ ues = [u \in 1..NumUE |-> ue]
    /\ msgs = << >>
    /\ uplink = << >>
    /\ ngap = NoNgap
    /\ ngapCrashed = FALSE
    /\ gtp = NewGTP(0, 0)
    /\ gtpCall = NoGtpCall
    /\ session = NoSession
    /\ probe = NoProbe
    /\ per = NoPer

\* the sequence number octet of a security protected frame
FrameSeq(pdu) == pdu[7]

\* the plain message is a Security Mode Complete
IsSecurityModeComplete(plain) ==
    Len(plain) >= 3 /\ plain[3] = MessageTypeSecurityModeComplete

\* a make-call returned r: a panic ends the process; a call that went
\* through enc5GSecurityProtectedMessageHeader returns its plaintext too
Made(name, r) ==
    /\ op' = Call(name)
    /\ dlog' = << >>
    /\ UNCHANGED << sentRR, ngapVars, gtpVars, recvVars, perVars >>
    /\ IF r.panic
       THEN /\ crashed' = TRUE
            /\ out' = NoOut
            /\ UNCHANGED << ue, emitted, lastSeq, lastCount, smcAsked >>
       ELSE LET prot == r.plain # << >> IN
            /\ crashed' = FALSE
            /\ ue' = r.ue
            /\ out' = [ pdu |-> r.pdu, plain |-> r.plain, prot |-> prot,
                        asked |-> smcAsked ]
            /\ IF prot
               THEN /\ emitted' = emitted + 1
                    /\ lastSeq' = FrameSeq(r.pdu)
                    /\ lastCount' = MacCount(Drop(r.pdu, 6))
               ELSE UNCHANGED << emitted, lastSeq, lastCount >>
            /\ smcAsked' = IF IsSecurityModeComplete(r.plain) THEN FALSE ELSE smcAsked

DoMakeRegistrationRequest ==
    /\ ~crashed
    /\ \E r \in { MakeRegistrationRequest(ue) } :
          /\ ue' = r.ue
          /\ out' = [ NoOut EXCEPT !.pdu = r.pdu ]
          /\ sentRR' = IF sentRR = << >> THEN r.pdu ELSE sentRR
    /\ op' = Call("MakeRegistrationRequest")
    /\ dlog' = << >>
    /\ UNCHANGED << crashed, emitted, lastSeq, lastCount, smcAsked >>
    /\ UNCHANGED << ngapVars, gtpVars, recvVars, perVars >>

DoMakeAuthenticationResponse ==
    /\ ~crashed
    /\ \E r \in { MakeAuthenticationResponse(ue) } :
          Made("MakeAuthenticationResponse", r)

\* the calls that emit a security protected message, as long as fewer than
\* max have been emitted
MakeNasPduUpTo(max) ==
    /\ ~crashed
    /\ ue.NasCount < max
    /\ \E r \in { MakeNasPdu(ue) } : Made("MakeNasPdu", r)

MakeSecurityModeCompleteUpTo(max) ==
    /\ ~crashed
    /\ ue.NasCount < max
    /\ \E r \in { MakeSecurityModeComplete(ue) } : Made("MakeSecurityModeComplete", r)

MakeRegistrationCompleteUpTo(max) ==
    /\ ~crashed
    /\ ue.NasCount < max
    /\ \E r \in { MakeRegistrationComplete(ue) } : Made("MakeRegistrationComplete", r)

MakePDUSessionEstablishmentRequestUpTo(max) ==
    /\ ~crashed
    /\ ue.NasCount < max
    /\ \E r \in { MakePDUSessionEstablishmentRequest(ue) } :
          Made("MakePDUSessionEstablishmentRequest", r)

MakeDeregistrationRequestUpTo(max) ==
    /\ ~crashed
    /\ ue.NasCount < max
    /\ \E r \in { MakeDeregistrationRequest(ue) } : Made("MakeDeregistrationRequest", r)

DoMakeNasPdu == MakeNasPduUpTo(MaxNasCount)

DoMakeSecurityModeComplete == MakeSecurityModeCompleteUpTo(MaxNasCount)

DoMakeRegistrationComplete == MakeRegistrationCompleteUpTo(MaxNasCount)

DoMakePDUSessionEstablishmentRequest ==
    MakePDUSessionEstablishmentRequestUpTo(MaxNasCount)

DoMakeDeregistrationRequest == MakeDeregistrationRequestUpTo(MaxNasCount)

\* a dprint line of one of the message handlers: the message was interpreted
HandlerLines ==
    { "Registration Accept", "Authentication Request", "Security Mode Command",
      "DL NAS Transport", "PDU Session Establishment Accept" }

Lines(log) == { log[i] : i \in 1..Len(log) }

\* Receive(pdu) for a message the network side sends
DoReceive(m) ==
    /\ ~crashed
    /\ \E r \in { Receive(ue, m.pdu) } :
          /\ crashed' = r.panic
          /\ ue' = IF r.panic THEN ue ELSE r.ue
          /\ dlog' = r.log
          /\ smcAsked' = IF ~r.panic /\ "Security Mode Command" \in Lines(r.log)
                         THEN m.rinmr ELSE smcAsked
    /\ op' = [ name |-> "Receive", kind |-> m.kind, sht |-> m.sht, mac |-> m.mac,
               valid |-> m.valid, from |-> ue.state5GMM ]
    /\ out' = NoOut
    /\ UNCHANGED << sentRR, emitted, lastSeq, lastCount >>
    /\ UNCHANGED << ngapVars, gtpVars, recvVars, perVars >>

Next ==
    \/ DoMakeRegistrationRequest
    \/ DoMakeNasPdu
    \/ DoMakeAuthenticationResponse
    \/ DoMakeSecurityModeComplete
    \/ DoMakeRegistrationComplete
    \/ DoMakePDUSessionEstablishmentRequest
    \/ DoMakeDeregistrationRequest
    \/ \E m \in Downlink(ue) : DoReceive(m)

Spec == Init /\ [][Next]_vars

\* A long run: the UE is authenticated once and then keeps emitting security
\* protected messages
WrapReceive ==
    \E m \in { x \in Downlink(ue) : x.kind = "AuthenticationRequest" /\ x.valid } :
        DoReceive(m)

WrapMakeSecurityModeComplete == MakeSecurityModeCompleteUpTo(MaxWrapCount)

WrapMakeRegistrationComplete == MakeRegistrationCompleteUpTo(MaxWrapCount)

WrapMakePDUSessionEstablishmentRequest ==
    MakePDUSessionEstablishmentRequestUpTo(MaxWrapCount)

WrapMakeDeregistrationRequest == MakeDeregistrationRequestUpTo(MaxWrapCount)

NextWrap ==
    \/ WrapReceive
    \/ WrapMakeSecurityModeComplete
    \/ WrapMakeRegistrationComplete
    \/ WrapMakePDUSessionEstablishmentRequest
    \/ WrapMakeDeregistrationRequest

SpecWrap == Init /\ [][NextWrap]_vars

\* ------------------------------------------------------------------------
\* The gNB: campers, uplink messages, PDUs from the AMF
\* ------------------------------------------------------------------------

DoCampIn(u) ==
    /\ ~ngapCrashed
    /\ Len(gnb.Camper) < MaxCampers
    /\ \E r \in { CampIn(gnb, RanUeNgapId, u) } :
          /\ gnb' = r.gnb
          /\ RanUeNgapId' = r.RanUeNgapId
    /\ ngap' = [ NoNgap EXCEPT !.name = "CampIn", !.ue = u ]
    /\ UNCHANGED << ues, msgs, uplink, ngapCrashed >>
    /\ UNCHANGED << nasVars, gtpVars, recvVars, perVars >>

\* pdu := ue.MakeRegistrationRequest() or ue.MakeNasPdu(), then
\* gnb.RecvfromUE(ue, &pdu)
DoRecvfromUE(u, kind) ==
    /\ ~ngapCrashed
    /\ Len(msgs) < MaxMsgs
    /\ \E r \in { IF kind = "RegistrationRequest"
                  THEN MakeRegistrationRequest(ues[u]) ELSE MakeNasPdu(ues[u]) } :
       \E h \in { RecvfromUE(gnb, u, Len(msgs) + 1) } :
          LET panic == h.panic \/ (kind = "NasPdu" /\ r.panic)
          IN /\ ngapCrashed' = panic
             /\ gnb' = IF panic THEN gnb ELSE h.gnb
             /\ ues' = IF panic THEN ues ELSE [ ues EXCEPT ![u] = r.ue ]
             /\ msgs' = IF panic THEN msgs
                        ELSE Append(msgs, [ ue |-> u, pdu |-> r.pdu ])
    /\ ngap' = [ NoNgap EXCEPT !.name = "RecvfromUE", !.ue = u, !.kind = kind,
                               !.nas = Len(msgs) + 1 ]
    /\ UNCHANGED << RanUeNgapId, uplink >>
    /\ UNCHANGED << nasVars, gtpVars, recvVars, perVars >>

\* the variables RecvMsg can point to
PdusOf(m) == [i \in 1..Len(m) |-> m[i].pdu]

\* an uplink message was built for UE u
Built(name, u, r) ==
    /\ ngapCrashed' = r.panic
    /\ gnb' = r.gnb
    /\ uplink' = IF r.panic THEN uplink
                 ELSE Append(uplink, [ ue |-> u, nas |-> r.nas ])
    /\ ngap' = [ NoNgap EXCEPT !.name = name, !.ue = u, !.pdu = r.pdu, !.nas = r.nas ]
    /\ UNCHANGED << RanUeNgapId, ues, msgs >>
    /\ UNCHANGED << nasVars, gtpVars, recvVars, perVars >>

DoMakeInitialUEMessage(u) ==
    /\ ~ngapCrashed
    /\ Len(uplink) < MaxUplink
    /\ \E r \in { MakeInitialUEMessage(gnb, u, PdusOf(msgs)) } :
          Built("MakeInitialUEMessage", u, r)

DoMakeUplinkNASTransport(u) ==
    /\ ~ngapCrashed
    /\ Len(uplink) < MaxUplink
    /\ \E r \in { MakeUplinkNASTransport(gnb, u, PdusOf(msgs)) } :
          Built("MakeUplinkNASTransport", u, r)

\* gnb.Decode(&buf) for a PDU the AMF sends
DoDecode(f) ==
    /\ ~ngapCrashed
    /\ \E g \in { GNBDecode(gnb, ues, f.pdu) } :
          /\ ngapCrashed' = g.panic
          /\ gnb' = IF g.panic THEN gnb ELSE g.gnb
          /\ ues' = IF g.panic THEN ues ELSE g.ues
          /\ ngap' = [ NoNgap EXCEPT !.name = "Decode", !.kind = f.kind,
                                     !.order = f.order, !.amf = f.amf, !.ran = f.ran,
                                     !.log = g.log, !.ies = g.ies,
                                     !.delivered = g.delivered,
                                     !.left = Len(g.pdu) ]
    /\ UNCHANGED << RanUeNgapId, msgs, uplink >>
    /\ UNCHANGED << nasVars, gtpVars, recvVars, perVars >>

\* the gNB takes UEs in and decodes what the AMF sends
NextNgap ==
    \/ \E u \in 1..NumUE : DoCampIn(u)
    \/ \E f \in NgapDownlink(ue) : DoDecode(f)

SpecNgap == Init /\ [][NextNgap]_vars

\* the gNB takes UEs in and decodes PDUs that arrive truncated
NextTruncated ==
    \/ \E u \in 1..NumUE : DoCampIn(u)
    \/ \E f \in TruncatedDownlink(ue) : DoDecode(f)

SpecTruncated == Init /\ [][NextTruncated]_vars

\* the gNB takes UEs in, is handed their NAS PDUs and builds the uplink
\* messages that carry them
NextUplink ==
    \/ \E u \in 1..NumUE : DoCampIn(u)
    \/ \E u \in 1..NumUE : \E kind \in {"RegistrationRequest", "NasPdu"} :
          DoRecvfromUE(u, kind)
    \/ \E u \in 1..NumUE : DoMakeInitialUEMessage(u)
    \/ \E u \in 1..NumUE : DoMakeUplinkNASTransport(u)

SpecUplink == Init /\ [][NextUplink]_vars

\* ------------------------------------------------------------------------
\* The GTP-U tunnel
\* ------------------------------------------------------------------------

\* gtp := gtp.NewGTP(lteid, pteid)
DoNewGTP(lteid, pteid) ==
    /\ ~gtpCall.panic
    /\ gtp' = NewGTP(lteid, pteid)
    /\ gtpCall' = [ NoGtpCall EXCEPT !.name = "NewGTP" ]
    /\ UNCHANGED << nasVars, ngapVars, recvVars, perVars >>

DoSetQosFlowID(id) ==
    /\ ~gtpCall.panic
    /\ gtp' = SetQosFlowID(gtp, id)
    /\ gtpCall' = [ NoGtpCall EXCEPT !.name = "SetQosFlowID" ]
    /\ UNCHANGED << nasVars, ngapVars, recvVars, perVars >>

DoSetExtensionHeader(flag) ==
    /\ ~gtpCall.panic
    /\ gtp' = SetExtensionHeader(gtp, flag)
    /\ gtpCall' = [ NoGtpCall EXCEPT !.name = "SetExtensionHeader" ]
    /\ UNCHANGED << nasVars, ngapVars, recvVars, perVars >>

DoEncap(raw) ==
    /\ ~gtpCall.panic
    /\ gtpCall' = [ NoGtpCall EXCEPT !.name = "Encap", !.raw = raw,
                                     !.frame = Encap(gtp, raw) ]
    /\ UNCHANGED << gtp, nasVars, ngapVars, recvVars, perVars >>

\* Decap of the frame the last Encap made
DoDecapOwn ==
    /\ ~gtpCall.panic
    /\ gtpCall.name = "Encap"
    /\ \E r \in { Decap(gtp, gtpCall.frame) } :
          gtpCall' = [ gtpCall EXCEPT !.name = "Decap", !.out = r.raw,
                                      !.panic = r.panic, !.loop = TRUE ]
    /\ UNCHANGED << gtp, nasVars, ngapVars, recvVars, perVars >>

\* Decap of a frame from the peer
DoDecap(frame) ==
    /\ ~gtpCall.panic
    /\ \E r \in { Decap(gtp, frame) } :
          gtpCall' = [ NoGtpCall EXCEPT !.name = "Decap", !.frame = frame,
                                        !.out = r.raw, !.panic = r.panic ]
    /\ UNCHANGED << gtp, nasVars, ngapVars, recvVars, perVars >>

NextGtp ==
    \/ \E l \in TEIDs : \E p \in TEIDs : DoNewGTP(l, p)
    \/ \E id \in QFIs : DoSetQosFlowID(id)
    \/ \E flag \in BOOLEAN : DoSetExtensionHeader(flag)
    \/ \E raw \in Payloads : DoEncap(raw)
    \/ DoDecapOwn
    \/ \E frame \in PeerFrames : DoDecap(frame)

SpecGtp == Init /\ [][NextGtp]_vars

\* ------------------------------------------------------------------------
\* The control-plane receive
\* ------------------------------------------------------------------------

\* main of cmd/gnbsim or of the example starts its session
StartSession(driver) ==
    /\ session.driver = ""
    /\ session' = [ session EXCEPT !.driver = driver ]
    /\ UNCHANGED << nasVars, ngapVars, gtpVars, perVars, probe >>

\* recv(t), recvfromAMF(t): the channel is made, the reader started, the
\* select entered
RecvCall(t) ==
    /\ UNCHANGED << nasVars, ngapVars, gtpVars, perVars, probe >>
    /\ ~session.terminated
    /\ session.driver # ""
    /\ session.pc = "idle"
    /\ session.done < MaxRecv
    /\ session' = [ session EXCEPT !.pc = "select",
                                   !.timer = TimerOf(session.driver, t),
                                   !.elapsed = 0, !.chan = 0,
                                   !.reader = TRUE, !.err = "" ]

\* what a reader does once SCTPRead returned: a read error ends the
\* process in the example and is passed over in cmd; a frame is decoded,
\* which clears gnb.DecodeError and may set it, and a panic of Decode ends
\* the process; then the channel gets its value
AfterRead(s, outcome) ==
    IF outcome = "panic" \/ (outcome = "error" /\ s.driver = "example")
    THEN [ s EXCEPT !.terminated = TRUE ]
    ELSE IF outcome = "error" THEN s
    ELSE [ s EXCEPT !.decodeErr = IF outcome = "decode error"
                                  THEN "decode error" ELSE "" ]

\* the outcomes of a read: an error of SCTPRead, or a PDU of the AMF and
\* what its decoding comes to
ReadOutcomes ==
    { "error" } \cup { ReadOutcome(GNBDecode(gnb, ues, f.pdu)) : f \in SessionFrames(ue) }

\* s.send(pdu), t.sendtoAMF(pdu): the driver writes an uplink PDU
Send(outcome) ==
    /\ UNCHANGED << nasVars, ngapVars, gtpVars, perVars, probe >>
    /\ ~session.terminated
    /\ session.driver # ""
    /\ session.pc = "idle"
    /\ session.sent < MaxSend
    /\ session' = IF session.driver = "cmd" THEN send(session, outcome)
                  ELSE sendtoAMF(session, outcome)

\* the reader of the present receive: SCTPRead returns
ReaderReads(outcome) ==
    /\ UNCHANGED << nasVars, ngapVars, gtpVars, perVars, probe >>
    /\ ~session.terminated
    /\ session.reader
    /\ session' = [ AfterRead(session, outcome) EXCEPT
                      !.reader = FALSE,
                      !.chan = IF AfterRead(session, outcome).terminated
                               THEN session.chan ELSE 1 ]

\* the reader of a receive that timed out: SCTPRead returns; nobody
\* receives from its channel.  Unless the read failed the reader calls
\* Decode like any other, which lateDecode records.
OrphanReads(outcome) ==
    /\ UNCHANGED << nasVars, ngapVars, gtpVars, perVars, probe >>
    /\ ~session.terminated
    /\ session.orphans > 0
    /\ session' = [ AfterRead(session, outcome) EXCEPT
                      !.orphans = @ - 1,
                      !.lateDecode = @ \/ outcome # "error" ]

\* a second passes while the caller waits and no case is ready
Tick ==
    /\ UNCHANGED << nasVars, ngapVars, gtpVars, perVars, probe >>
    /\ ~session.terminated
    /\ session.pc = "select"
    /\ session.chan = 0
    /\ ~TimeAfter(session.timer, session.elapsed)
    /\ session.elapsed < MaxClock
    /\ session' = [ session EXCEPT !.elapsed = @ + 1 ]

\* case <-c: the receive returns
SelectChan ==
    /\ UNCHANGED << nasVars, ngapVars, gtpVars, perVars, probe >>
    /\ ~session.terminated
    /\ session.pc = "select"
    /\ session.chan = 1
    /\ session' = [ session EXCEPT !.pc = "idle", !.chan = 0, !.done = @ + 1 ]

\* case <-time.After(t * time.Second): the receive returns the timeout (the
\* example logs it); its reader goes on reading
SelectTimeout ==
    /\ UNCHANGED << nasVars, ngapVars, gtpVars, perVars, probe >>
    /\ ~session.terminated
    /\ session.pc = "select"
    /\ TimeAfter(session.timer, session.elapsed)
    /\ session' = [ session EXCEPT !.pc = "idle", !.done = @ + 1,
                                   !.err = "read timeout",
                                   !.reader = FALSE,
                                   !.orphans = IF session.reader THEN @ + 1 ELSE @ ]

NextRecv ==
    \/ \E d \in {"cmd", "example"} : StartSession(d)
    \/ \E t \in Timeouts : RecvCall(t)
    \/ \E outcome \in {"ok", "error"} : Send(outcome)
    \/ \E outcome \in ReadOutcomes : ReaderReads(outcome)
    \/ \E outcome \in ReadOutcomes : OrphanReads(outcome)
    \/ Tick
    \/ SelectChan
    \/ SelectTimeout

SpecRecv == Init /\ [][NextRecv]_vars

\* the select statement is not delayed for ever once a case is ready, and
\* time passes while none is
SpecRecvFair ==
    SpecRecv /\ WF_vars(Tick) /\ WF_vars(SelectChan) /\ WF_vars(SelectTimeout)


\* ------------------------------------------------------------------------
\* The packed encoding rules, one call in a run
\* ------------------------------------------------------------------------

\* bf := per.MergeBitField(in1, in2)
DoMergeBitField(in1, in2) ==
    /\ UNCHANGED << nasVars, ngapVars, gtpVars, recvVars >>
    /\ per.name = ""
    /\ per' = [ NoPer EXCEPT !.name = "MergeBitField", !.in1 = in1, !.in2 = in2,
                             !.out = MergeBitField(in1, in2) ]

\* bf, err := per.EncConstrainedWholeNumber(input, min, max)
DoEncConstrainedWholeNumber(input, min, max) ==
    /\ UNCHANGED << nasVars, ngapVars, gtpVars, recvVars >>
    /\ per.name = ""
    /\ \E r \in { EncConstrainedWholeNumber(input, min, max) } :
          per' = [ NoPer EXCEPT !.name = "EncConstrainedWholeNumber",
                                !.input = input, !.min = min, !.max = max,
                                !.out = r.bf, !.err = r.err ]

\* bf, err := per.EncLengthDeterminant(input, min, max)
DoEncLengthDeterminant(input, min, max) ==
    /\ UNCHANGED << nasVars, ngapVars, gtpVars, recvVars >>
    /\ per.name = ""
    /\ \E r \in { EncLengthDeterminant(input, min, max) } :
          per' = [ NoPer EXCEPT !.name = "EncLengthDeterminant",
                                !.input = input, !.min = min, !.max = max,
                                !.out = r.bf, !.err = r.err ]

\* tmp = gnb.encNASPDU(c) for a NAS PDU of n octets: the number of octets
\* returned and the first of them are kept
DoEncNASPDU(n) ==
    /\ UNCHANGED << nasVars, ngapVars, gtpVars, recvVars >>
    /\ per.name = ""
    /\ \E r \in { encNASPDU(GNBWithMessage, 1, << [i \in 1..n |-> 0] >>) } :
          per' = [ NoPer EXCEPT !.name = "encNASPDU", !.input = n,
                                !.outLen = Len(r.v),
                                !.head = SubSeq(r.v, 1, IF Len(r.v) < 6 THEN Len(r.v)
                                                        ELSE 6) ]

NextPer ==
    \/ \E in1, in2 \in BitFields : DoMergeBitField(in1, in2)
    \/ \E range \in WholeRanges : \E input \in WholeInputs(range[1], range[2]) :
          DoEncConstrainedWholeNumber(input, range[1], range[2])
    \/ \E input \in Lengths : \E range \in LengthRanges :
          DoEncLengthDeterminant(input, range[1], range[2])
    \/ \E n \in NasPduSizes : DoEncNASPDU(n)

SpecPer == Init /\ [][NextPer]_vars

\* ------------------------------------------------------------------------
\* The HTTP probe of the user plane (example/example.go runUPlane): a loop
\* of a select over ctx.Done() and time.After(5 s), and a GET
\* ------------------------------------------------------------------------

\* go t.runUPlane(ctx): the address of the UE is resolved, an error of
\* which makes the task return, and the loop is entered
RunUPlane(resolved) ==
    /\ UNCHANGED << nasVars, ngapVars, gtpVars, perVars, session >>
    /\ probe.pc = "idle"
    /\ probe' = [ probe EXCEPT !.pc = IF resolved THEN "select" ELSE "returned" ]

\* cancel(): the context of the user plane is cancelled
CancelProbe ==
    /\ UNCHANGED << nasVars, ngapVars, gtpVars, perVars, session >>
    /\ ~probe.fatal
    /\ ~probe.cancelled
    /\ probe' = [ probe EXCEPT !.cancelled = TRUE ]

\* a second passes while the task waits and no case is ready
ProbeTick ==
    /\ UNCHANGED << nasVars, ngapVars, gtpVars, perVars, session >>
    /\ probe.pc = "select"
    /\ ~probe.cancelled
    /\ ~TimeAfter(probeTimer, probe.elapsed)
    /\ probe' = [ probe EXCEPT !.elapsed = @ + 1 ]

\* case <-ctx.Done(): return
ProbeSelectDone ==
    /\ UNCHANGED << nasVars, ngapVars, gtpVars, perVars, session >>
    /\ probe.pc = "select"
    /\ probe.cancelled
    /\ probe' = [ probe EXCEPT !.pc = "returned" ]

\* case <-time.After(5 * time.Second): the task goes forward to
\* client.Get(ue.URL)
ProbeSelectAfter ==
    /\ UNCHANGED << nasVars, ngapVars, gtpVars, perVars, session >>
    /\ probe.pc = "select"
    /\ TimeAfter(probeTimer, probe.elapsed)
    /\ probe.gets < MaxGets
    /\ probe' = [ probe EXCEPT !.pc = "get", !.gets = @ + 1 ]

\* client.Get returned: an error is given to log.Fatalf, which ends the
\* process; any status leads back to the select
ProbeGetReturns(outcome) ==
    /\ UNCHANGED << nasVars, ngapVars, gtpVars, perVars, session >>
    /\ probe.pc = "get"
    /\ probe' = IF outcome = "error"
                THEN [ probe EXCEPT !.pc = "exited", !.fatal = TRUE,
                                    !.status = outcome ]
                ELSE [ probe EXCEPT !.pc = "select", !.elapsed = 0,
                                    !.status = outcome ]

NextProbe ==
    \/ \E resolved \in BOOLEAN : RunUPlane(resolved)
    \/ CancelProbe
    \/ ProbeTick
    \/ ProbeSelectDone
    \/ ProbeSelectAfter
    \/ \E outcome \in {"200", "other", "error"} : ProbeGetReturns(outcome)

SpecProbe == Init /\ [][NextProbe]_vars

\* the select is not delayed for ever once a case is ready, time passes
\* while none is, and client.Get returns (the client has a timeout of 3 s)
SpecProbeFair ==
    /\ SpecProbe
    /\ WF_vars(ProbeTick)
    /\ WF_vars(ProbeSelectDone)
    /\ WF_vars(ProbeSelectAfter)
    /\ WF_vars(\E outcome \in {"200", "other", "error"} : ProbeGetReturns(outcome))

\* ------------------------------------------------------------------------
\* Properties
\* ------------------------------------------------------------------------

\* the last call was Receive, it returned, and the handler named line ran
Interpreted(line) == op.name = "Receive" /\ ~crashed /\ line \in Lines(dlog)

\* the edges of the 5GMM life cycle
Edges5GMM ==
    { << state5GMMDeregistared, state5GMMRegisteredInitiated >>,
      << state5GMMRegisteredInitiated, state5GMMRegistered >>,
      << state5GMMRegistered, state5GMMDeregistaredInitiated >>,
      << state5GMMDeregistaredInitiated, state5GMMDeregistared >> }

\* the content of the NAS message container IE of a Security Mode Complete:
\* the octets after the message header and, if present, the IMEISV identity
NASMessageContainerOf(plain) ==
    LET afterHead == Drop(plain, 3)
        afterId == IF Len(afterHead) >= 3 /\ afterHead[1] = iei5GSMobileIdentity
                   THEN Drop(afterHead, 3 + Uint16(Drop(afterHead, 1)))
                   ELSE afterHead
    IN IF Len(afterId) >= 3 /\ afterId[1] = ieiNASMessageContainer
          /\ Len(afterId) = 3 + Uint16(Drop(afterId, 1))
       THEN Drop(afterId, 3)
       ELSE << >>

\* C1: a UE in REGISTERED-INITIATED that decodes a Registration Accept is
\* in 5GMM state REGISTERED afterwards.
C1_RegisteredAfterAccept ==
    (Interpreted("Registration Accept") /\ op.from = state5GMMRegisteredInitiated)
        => ue.state5GMM = state5GMMRegistered

\* C2: the 5GMM state is DEREGISTERED after PowerON and every later change
\* of it, by a make-call or by a decode, follows an edge of the life cycle
\* DEREGISTERED -> REGISTERED-INITIATED -> REGISTERED ->
\* DEREGISTERED-INITIATED -> DEREGISTERED.
C2_LifeCycleEdges ==
    /\ ue.state5GMM = state5GMMDeregistared
    /\ [][ue'.state5GMM # ue.state5GMM
            => << ue.state5GMM, ue'.state5GMM >> \in Edges5GMM]_vars

\* a make-call that emits a Security Mode Complete took a UE from
\* DEREGISTERED to REGISTERED-INITIATED (through encNASMessageContainer)
C2_Witness ==
    /\ op.name = "MakeSecurityModeComplete"
    /\ op.from = state5GMMDeregistared
    /\ ue.state5GMM = state5GMMRegisteredInitiated
    /\ ~crashed

\* C3 as stated: the security protected message the UE emits passes the
\* UE's own MAC verification when the UE decodes it.
C3_OwnVerificationPasses ==
    (out.prot /\ ~crashed)
        => LET r == Receive(ue, out.pdu)
           IN ~r.panic /\ r.ue.DecodeError = ""
              /\ "***** Integrity check passed" \in Lines(r.log)

\* C3: the security protected message emitted for the plaintext P is EPD,
\* a non-zero security header type, MAC, sequence number, P; the MAC is the
\* one ComputeMAC yields for the uplink direction (0) over sequence number
\* and P, and the octets after the 7 octet header are P.
C3_EmittedFrame ==
    (out.prot /\ ~crashed)
        => LET m == ComputeMAC(ue, 0, Drop(out.pdu, 6))
           IN /\ Len(out.pdu) = 7 + Len(out.plain)
              /\ out.pdu[1] = EPD5GSMobilityManagement
              /\ out.pdu[2] # SecurityHeaderTypePlain
              /\ ~m.panic
              /\ SubSeq(out.pdu, 3, 6) = m.mac
              /\ Drop(out.pdu, 7) = out.plain

\* a Security Mode Complete was emitted by a UE that holds an integrity key
C3_Witness ==
    /\ out.prot /\ ~crashed
    /\ IsSecurityModeComplete(out.plain)
    /\ ValidAesKey(ue.AuthParam.Kint)
    /\ Len(out.pdu) > 10

\* C4: a downlink 5GMM message with a non-zero security header type is
\* interpreted only if its MAC is the one the UE computes, and after the
\* MAC check has passed.
C4_CheckedBeforeInterpreted ==
    (op.name = "Receive" /\ ~crashed /\ op.sht # SecurityHeaderTypePlain
       /\ Lines(dlog) \cap HandlerLines # {})
        => (op.valid /\ "***** Integrity check passed" \in Lines(dlog))

C6_StrictlyIncreasing ==
    [][(emitted' = emitted + 1 /\ emitted >= 1)
          => (lastSeq' > lastSeq /\ lastCount' > lastCount)]_vars

\* C7: when the MAC of a security protected downlink message is not the one
\* the UE computes, DecodeError is set when Receive returns and no handler
\* has parsed the inner message.
C7_MismatchRecorded ==
    (op.name = "Receive" /\ ~crashed /\ op.mac /\ ~op.valid)
        => (ue.DecodeError # "" /\ Lines(dlog) \cap HandlerLines = {})

\* C8: after a downlink failed the MAC verification and before another
\* downlink is decoded, MakeNasPdu returns nothing.
C8_NothingAfterFailure ==
    (op.name = "MakeNasPdu" /\ ~crashed
       /\ ue.DecodeError = "nas: integrity checking failed")
        => out.pdu = << >>

\* C9: when the MAC-A computed for a received Authentication Request
\* differs from the MAC in AUTN, DecodeError is set when Receive returns.
C9_MacAMismatchRecorded ==
    Interpreted("received and calculated MAC values do not match.")
        => ue.DecodeError # ""

\* C10: when the last Security Mode Command the UE accepted had bit 2 of
\* the Additional 5G security information set, the next Security Mode
\* Complete carries a NAS message container whose content is, octet for
\* octet, the Registration Request the UE sent first.
C10_ContainerIsSentRequest ==
    (out.prot /\ ~crashed /\ out.asked /\ IsSecurityModeComplete(out.plain)
       /\ sentRR # << >>)
        => NASMessageContainerOf(out.plain) = sentRR

\* a Security Mode Complete answered such a Security Mode Command, after a
\* Registration Request had been sent
C10_Witness ==
    /\ out.prot /\ ~crashed /\ out.asked /\ IsSecurityModeComplete(out.plain)
    /\ sentRR # << >>
    /\ Len(NASMessageContainerOf(out.plain)) > 0

\* C18: for every payload x and every tunnel, with or without the extension
\* header flag, Decap of the frame Encap made for x returns exactly x.
C18_DecapOfEncap ==
    gtpCall.name = "Decap" /\ gtpCall.loop
        => ~gtpCall.panic /\ gtpCall.out = gtpCall.raw

\* the version field (the three high bits of the first octet) is not 1, or
\* the frame is shorter than the mandatory header: 8 octets, 12 with the E
\* bit
MalformedGTP(frame) ==
    \/ Len(frame) = 0
    \/ frame[1] \div gtpuVersion # 1
    \/ Len(frame) < (IF BitAnd(frame[1], hasExtensionHeader) = 0 THEN 8 ELSE 12)

\* C19: Decap of a frame whose version is not 1, or which is shorter than
\* the header its E bit implies, fails instead of returning a payload.
C19_DecapValidates ==
    gtpCall.name = "Decap" /\ MalformedGTP(gtpCall.frame) => gtpCall.panic

\* C11: every camper CampIn creates has a RAN-UE-NGAP-ID that differs from
\* every id allocated before in the gNB: at all times no two campers of
\* the gNB share a RAN-UE-NGAP-ID.
C11_UniqueRanId ==
    \A i, j \in 1..Len(gnb.Camper) :
        i # j => gnb.Camper[i].RanId # gnb.Camper[j].RanId

\* CampIn has just added a camper to a gNB that had one already
C11_Witness ==
    /\ ngap.name = "CampIn"
    /\ Len(gnb.Camper) >= 2
    /\ gnb.Camper[Len(gnb.Camper)].RanId = RanUeNgapId - 1

\* C12: at all times the camper table holds at most one camper per UE,
\* whatever sequence of CampIn calls is made.
C12_OneCamperPerUE ==
    \A i, j \in 1..Len(gnb.Camper) :
        i # j => gnb.Camper[i].UE # gnb.Camper[j].UE

\* C13: a downlink message with an AMF-UE-NGAP-ID IE and a RAN-UE-NGAP-ID
\* IE is decoded without failure and leaves the camper with that RAN id
\* holding the AMF id, whichever of the two IEs comes first.
C13_EitherOrder ==
    /\ ngap.name = "Decode"
    /\ ngap.kind = "DownlinkNASTransport"
    /\ \E i \in 1..Len(gnb.Camper) : gnb.Camper[i].RanId = ngap.ran
    => /\ ~ngapCrashed
       /\ \A i \in 1..Len(ngap.ies) : ngap.ies[i].err = ""
       /\ gnb.Camper[LookupCamperByRanId(gnb, ngap.ran)].AmfId = ngap.amf

\* the same for the messages that have the AMF-UE-NGAP-ID IE first
C13_AmfIdFirst ==
    ngap.order = "amf-ran" => C13_EitherOrder

\* the value octets the frame of that kind declares for its unknown IE
DeclaredLength(kind) ==
    IF kind = "LongUnknownIE" THEN Len(LongValue) ELSE Len(ShortValue)

\* C14: an IE with an id the decoder does not know has exactly its declared
\* length of value octets consumed, no failure is reported, and decoding
\* goes on with the next IE of the container (here the NAS-PDU IE, whose
\* NAS PDU reaches the UE).
C14_UnknownIESkipped ==
    /\ ngap.name = "Decode"
    /\ ngap.kind \in { "UnknownIE", "LongUnknownIE" }
    /\ \E i \in 1..Len(gnb.Camper) : gnb.Camper[i].RanId = ngap.ran
    => /\ ~ngapCrashed
       /\ Len(ngap.ies) = 4
       /\ ngap.ies[3].id = UnknownIEId
       /\ ngap.ies[3].err = ""
       /\ ngap.ies[3].before - ngap.ies[3].after = DeclaredLength(ngap.kind)
       /\ ngap.ies[4].id = idNASPDU
       /\ Len(ngap.delivered) = 1
       /\ ngap.delivered[1].pdu = DeregistrationAcceptPdu
       /\ ngap.left = 0

\* the same for the unknown IE whose length fits one octet
C14_ShortUnknownIE ==
    ngap.kind = "UnknownIE" => C14_UnknownIESkipped

\* C15: for every Protocol IE of a downlink message the decoder reads no
\* octet beyond the advertised length of the IE: what is consumed for the
\* value is at most the declared length.
C15_WithinIELength ==
    ngap.name = "Decode"
        => \A i \in 1..Len(ngap.ies) :
              ngap.ies[i].before - ngap.ies[i].after <= ngap.ies[i].length

\* C16: Decode of a PDU whose procedure code is not implemented logs an
\* error and returns normally: the process has not ended, so that the gNB
\* can decode the next PDU.
C16_UnknownProcedure ==
    ngap.name = "Decode" /\ ngap.kind = "UnknownProcedure"
        => /\ ~ngapCrashed
           /\ \E i \in 1..Len(ngap.log) : ngap.log[i] = "unsupported procedure"

\* the same for the PDUs that have no RAN-UE-NGAP-ID IE in front of the
\* AMF-UE-NGAP-ID IE
C16_UnknownProcedureIdsInOrder ==
    ngap.order # "ran-amf" => C16_UnknownProcedure

\* the NAS PDU an uplink PDU carries, as a receiver reads it: behind the
\* three octets of the head, the length determinant and the three octets
\* of the container, the value of the IE idNASPDU is an octet string
NasPduCarried(pdu) ==
    LET LenOctets(s, at) == IF s[at] < 128 THEN 1 ELSE 2
        LenValue(s, at) ==
            IF s[at] < 128 THEN s[at] ELSE (s[at] % 128) * 256 + s[at + 1]
        RECURSIVE Find(_)
        Find(rest) ==
            IF Len(rest) < 4 THEN << >>
            ELSE IF Uint16(rest) = idNASPDU
            THEN SubSeq(rest, 4 + LenOctets(rest, 4),
                        3 + LenOctets(rest, 4) + LenValue(rest, 4))
            ELSE Find(Drop(rest, 3 + LenOctets(rest, 4) + LenValue(rest, 4)))
        Octets(v) == IF v = << >> THEN << >> ELSE Drop(v, LenOctets(v, 1))
    IN IF Len(pdu) < 4 THEN << >>
       ELSE Octets(Find(Drop(pdu, 3 + LenOctets(pdu, 4) + 3)))

\* C17: for each UE, the NAS PDUs which the uplink messages built for it
\* carry are PDUs its NAS layer produced, in the order it produced them.
C17_UplinkOrder ==
    /\ \A i \in 1..Len(uplink) :
          uplink[i].nas # 0 => msgs[uplink[i].nas].ue = uplink[i].ue
    /\ \A i, j \in 1..Len(uplink) :
          /\ i < j
          /\ uplink[i].ue = uplink[j].ue
          /\ uplink[i].nas # 0
          /\ uplink[j].nas # 0
          => uplink[i].nas < uplink[j].nas
    /\ /\ ngap.name \in { "MakeInitialUEMessage", "MakeUplinkNASTransport" }
       /\ ~ngapCrashed
       => NasPduCarried(ngap.pdu)
             = IF ngap.nas = 0 THEN << >> ELSE msgs[ngap.nas].pdu

\* two uplink messages were built for one UE, each with a NAS PDU
C17_Witness ==
    /\ ngap.name = "MakeUplinkNASTransport"
    /\ ~ngapCrashed
    /\ Len(uplink) >= 2
    /\ uplink[1].ue = uplink[2].ue
    /\ uplink[1].nas # 0
    /\ uplink[2].nas # 0
    /\ msgs[uplink[1].nas].pdu # msgs[uplink[2].nas].pdu

C21_SendFailureFatal ==
    /\ [](session.sendFailed => session.terminated)
    /\ [][session.sendFailed
            => /\ session'.sent = session.sent
               /\ ~(session.pc = "idle" /\ session'.pc = "select")]_vars

\* C22: once the context is cancelled the probe loop exits cleanly: the
\* task returns in the end, it issues no further GET, and the process is
\* not ended.
C22_CleanExit ==
    /\ [][probe.cancelled => probe'.gets = probe.gets]_vars
    /\ [](probe.cancelled => ~probe.fatal)
    /\ (probe.cancelled /\ probe.pc # "idle" ~> probe.pc = "returned")

\* the same for a cancellation that finds the task in its select with the
\* timer not yet fired
C22_CancelledWhileWaiting ==
    [][/\ probe.cancelled /\ probe.pc = "select"
       /\ ~TimeAfter(probeTimer, probe.elapsed) /\ probe' # probe
       => probe'.pc = "returned" /\ probe'.gets = probe.gets /\ ~probe'.fatal]_vars

\* C23: the decoding of a truncated or length-inconsistent downlink PDU,
\* be it the NGAP PDU or the NAS PDU in it, ends with a decode error that
\* is not empty, and without a run-time panic, so that the session can
\* receive the next PDU.
C23_TruncatedReported ==
    /\ ngap.name = "Decode"
    /\ ngap.kind \in { "Truncated", "TruncatedNAS" }
    /\ \E i \in 1..Len(gnb.Camper) : gnb.Camper[i].RanId = ngap.ran
    => ~ngapCrashed /\ gnb.DecodeError # ""

\* C24: a UE that has emitted a Deregistration Request and then decodes a
\* Deregistration Accept is in the 5GMM state DEREGISTERED.
C24_DeregisteredAfterAccept ==
    [][(/\ op.name = "MakeDeregistrationRequest" /\ ~crashed /\ out.pdu # << >>
        /\ op'.name = "Receive" /\ op'.kind = "DeregistrationAccept" /\ ~crashed')
          => ue'.state5GMM = state5GMMDeregistared]_vars

\* C29: once the UE has accepted a Security Mode Command, a downlink 5GMM
\* message is interpreted only if it is security protected and its MAC is
\* the one the UE computes; a message with the plain security header type
\* is not interpreted.
C29_IntegrityRequired ==
    [][(/\ ue.Recv.state = rcvdSecurityModeCommand
        /\ op'.name = "Receive" /\ ~crashed'
        /\ Lines(dlog') \cap HandlerLines # {})
          => /\ op'.sht # SecurityHeaderTypePlain
             /\ op'.mac /\ op'.valid
             /\ "***** Integrity check passed" \in Lines(dlog')]_vars

\* C30: after every receive the driver inspects the decode error and
\* escalates if it is not empty: it does not go on to send the next
\* uplink message.
C30_DecodeErrorEscalated ==
    [][session.pc = "idle" /\ session.done >= 1 /\ session.decodeErr # ""
          => session'.sent = session.sent]_vars

Bit(v, i) == (v[((i - 1) \div 8) + 1] \div (2 ^ (7 - ((i - 1) % 8)))) % 2

\* the octets v and w hold the same first n bits
BitsAgree(v, w, n) ==
    /\ Len(v) * 8 >= n
    /\ Len(w) * 8 >= n
    /\ \A i \in 1..n : Bit(v, i) = Bit(w, i)

\* the whole number the octets hold, the first octet the most significant
RECURSIVE WholeNumberOf(_)
WholeNumberOf(octets) ==
    IF octets = << >> THEN 0
    ELSE WholeNumberOf(SubSeq(octets, 1, Len(octets) - 1)) * 256
           + octets[Len(octets)]

\* the bits and the octets the range of a constrained whole number asks for
WidthOfRange(bf, min, max) ==
    CASE max - min = 0 -> bf.Len = 0 /\ bf.Value = << >>
      [] max - min > 0 /\ max - min < 255 ->
             bf.Len = BitsLen(max - min) /\ Len(bf.Value) = 1
      [] max - min = 255 -> bf.Len = 0 /\ Len(bf.Value) = 1
      [] max - min > 255 /\ max - min <= 65535 -> bf.Len = 0 /\ Len(bf.Value) = 2
      [] OTHER -> bf.Len = 0 /\ Len(bf.Value) >= 1

\* C25: for every (v, min, max) with min <= v <= max the output of
\* EncConstrainedWholeNumber(v, min, max) decodes to v under the same
\* (min, max): the field holds v - min in the width the range chooses, in
\* every case of the range, the ranges larger than 65536 included.
C25_WholeNumberRoundTrip ==
    (/\ per.name = "EncConstrainedWholeNumber"
     /\ per.min <= per.input /\ per.input <= per.max)
       => /\ per.err = ""
          /\ WidthOfRange(per.out, per.min, per.max)
          /\ WholeNumberOf(per.out.Value) + per.min = per.input

\* C26: for all bit fields a and b, MergeBitField(a, b) has
\* Len = a.Len + b.Len and its first a.Len bits are the first a.Len bits
\* of a.
C26_MergeKeepsFirst ==
    per.name = "MergeBitField"
       => /\ ~per.out.panic
          /\ per.out.Len = per.in1.Len + per.in2.Len
          /\ BitsAgree(per.out.Value, per.in1.Value, per.in1.Len)

\* C27: for every bit field x, the empty one included, MergeBitField(empty,
\* x) is x: the same Len and the same bits, empty being the bit field of no
\* octets and Len 0.
C27_MergeEmptyLeft ==
    (per.name = "MergeBitField" /\ per.in1 = BitField(<< >>, 0))
       => /\ ~per.out.panic
          /\ per.out.Len = per.in2.Len
          /\ BitsAgree(per.out.Value, per.in2.Value, per.in2.Len)

\* an octet string of n octets, or the value made of it and its length,
\* needs an unconstrained length determinant of 16384 or more
NeedsLongLength(n) ==
    \/ n >= 16384
    \/ n + (IF n < 128 THEN 1 ELSE 2) >= 16384

\* C28: an encoder that needs an unconstrained length determinant for
\* n >= 16384 fails with an error and produces no output: no PDU with a
\* missing or wrong length field is emitted.
C28_LongLengthRefused ==
    /\ (/\ per.name = "EncLengthDeterminant"
        /\ (per.max = 0 \/ per.max >= 65536) /\ per.input >= 16384)
          => per.err # "" /\ per.out.Value = << >>
    /\ (per.name = "encNASPDU" /\ NeedsLongLength(per.input))
          => per.outLen = 0


\* C31: when a control-plane receive times out the read is abandoned:
\* after the receive has returned its reader calls no Decode and changes
\* nothing of the gNB, its campers or the UEs, so that no decode runs while
\* the main procedure goes on.
C31_ReadAbandoned ==
    /\ [](~session.lateDecode)
    /\ [][session'.orphans < session.orphans
            => session' = [ session EXCEPT !.orphans = @ - 1 ]]_vars


\* the campers of the gNB that have the RAN UE NGAP ID id
CampersWithRanId(g, id) == { i \in 1..Len(g.Camper) : g.Camper[i].RanId = id }

\* a step that decodes a Downlink NAS Transport for the RAN UE NGAP ID of
\* a camper gives its NAS PDU to the UE of that camper and to no other
DeliveredToAddressedUE ==
    (/\ ngap'.name = "Decode"
     /\ ngap'.kind = "DownlinkNASTransport"
     /\ CampersWithRanId(gnb, ngap'.ran) # {})
       => /\ ~ngapCrashed'
          /\ Len(ngap'.delivered) = 1
          /\ \A c \in CampersWithRanId(gnb, ngap'.ran) :
                ngap'.delivered[1].ue = gnb.Camper[c].UE
          /\ \A u \in 1..NumUE :
                u # ngap'.delivered[1].ue => ues'[u] = ues[u]

\* C32: the NAS PDU a downlink NGAP message carries is delivered to
\* exactly one UE, the UE of the camper whose RAN UE NGAP ID is the one of
\* the RAN-UE-NGAP-ID IE of the message; the NAS state of every other UE is
\* unchanged.
C32_DeliveredToAddressedUE == [][DeliveredToAddressedUE]_vars

\* the same for the messages that have the AMF-UE-NGAP-ID IE first
C32_AmfIdFirst == [][ngap'.order = "amf-ran" => DeliveredToAddressedUE]_vars

\* C36: a downlink NGAP message whose RAN UE NGAP ID is the id of no camper
\* of the gNB: Decode records a decode error, gives the NAS PDU of the
\* message to no UE, changes no camper and returns normally.
C36_UnknownRanId ==
    [][(/\ ngap'.name = "Decode"
        /\ ngap'.order # ""
        /\ CampersWithRanId(gnb, ngap'.ran) = {})
          => /\ ~ngapCrashed'
             /\ gnb'.DecodeError # ""
             /\ ngap'.delivered = << >>
             /\ ues' = ues
             /\ gnb'.Camper = gnb.Camper]_vars

\* C38: if the decoding of any IE of a Protocol IE container reports an
\* error, DecodeError of the gNB is not empty after Decode has returned,
\* whether or not the IEs behind it in the container decode.
C38_ErrorKept ==
    (/\ ngap.name = "Decode"
     /\ ~ngapCrashed
     /\ \E i \in 1..Len(ngap.ies) : ngap.ies[i].err # "")
       => gnb.DecodeError # ""


\* ------------------------------------------------------------------------
\* The uplink messages as a receiver reads them
\* ------------------------------------------------------------------------

\* the octets of the length determinant at the front of s, and the length
LenOctetsOf(s) == IF s[1] < 128 THEN 1 ELSE 2
LenValueOf(s) == IF s[1] < 128 THEN s[1] ELSE (s[1] % 128) * 256 + s[2]

\* the octets of an IE at the front of rest: id, criticality, length
\* determinant, value
IEOctets(rest) == 3 + LenOctetsOf(Drop(rest, 3)) + LenValueOf(Drop(rest, 3))

\* the IEs of a PDU: what is behind the three octets of the head, the
\* length determinant and the three octets of the container
IEsOf(pdu) == Drop(pdu, 3 + LenOctetsOf(Drop(pdu, 3)) + 3)

\* the number of IEs the container of a PDU declares
DeclaredIEs(pdu) == Uint16(Drop(pdu, 3 + LenOctetsOf(Drop(pdu, 3)) + 1))

\* the number of IEs in the octets rest
RECURSIVE CountIEs(_)
CountIEs(rest) ==
    IF Len(rest) < 4 THEN 0 ELSE 1 + CountIEs(Drop(rest, IEOctets(rest)))

\* the value of the first IE with that id in the octets rest
RECURSIVE IEValue(_, _)
IEValue(rest, id) ==
    IF Len(rest) < 4 THEN << >>
    ELSE IF Uint16(rest) = id
    THEN SubSeq(rest, 4 + LenOctetsOf(Drop(rest, 3)), IEOctets(rest))
    ELSE IEValue(Drop(rest, IEOctets(rest)), id)

\* an uplink message has just been built for the UE ngap.ue
UplinkBuilt ==
    /\ ngap.name \in { "MakeInitialUEMessage", "MakeUplinkNASTransport" }
    /\ ~ngapCrashed

\* C33: every uplink NGAP message built for a UE carries as RAN UE NGAP ID
\* the id CampIn gave to the camper of that UE.
C33_RanIdOfCamper ==
    UplinkBuilt
       => IEValue(IEsOf(ngap.pdu), idRANUENGAPID)
             = EncInteger(gnb.Camper[LookupCamperByUE(gnb, ngap.ue)].RanId,
                          0, WideMax, FALSE).v

\* the uplink messages that carry the NAS PDU i of msgs
CarriedBy(i) == { j \in 1..Len(uplink) : uplink[j].nas = i }

\* the campers whose RecvMsg points to the NAS PDU i of msgs
PendingAt(i) == { c \in 1..Len(gnb.Camper) : gnb.Camper[c].RecvMsg = i }

\* C37: every NAS PDU handed to the gNB with RecvfromUE is carried in
\* exactly one later uplink NGAP message for its UE: as long as no message
\* carries it the camper of the UE holds it, it is not dropped (overwritten
\* by a later RecvfromUE), and it is not sent twice.
C37_CarriedOnce ==
    \A i \in 1..Len(msgs) :
       /\ Cardinality(CarriedBy(i)) <= 1
       /\ \A j \in CarriedBy(i) : uplink[j].ue = msgs[i].ue
       /\ CarriedBy(i) = {}
            => \E c \in PendingAt(i) : gnb.Camper[c].UE = msgs[i].ue

\* C39: in every uplink NGAP message the number of IEs the Protocol IE
\* container declares is the number of IEs encoded behind it, also when no
\* NAS PDU is pending for the UE when the message is built.
C39_DeclaredIECount ==
    UplinkBuilt => DeclaredIEs(ngap.pdu) = CountIEs(IEsOf(ngap.pdu))


\* the NAS PDU is an Authentication Response
IsAuthenticationResponse(pdu) ==
    /\ Len(pdu) >= 3
    /\ SubSeq(pdu, 1, 3) = enc5GSMMMessageHeader(SecurityHeaderTypePlain,
                                                 MessageTypeAuthenticationResponse)

\* C34: every accepted downlink triggers at most one NAS response: of two
\* calls of MakeNasPdu with no downlink decoded in between the second
\* returns an empty PDU and leaves NasCount as it is.
C34_OneResponsePerDownlink ==
    [][(/\ op.name = "MakeNasPdu" /\ ~crashed
        /\ op'.name = "MakeNasPdu" /\ ~crashed')
          => out'.pdu = << >> /\ ue'.NasCount = ue.NasCount]_vars

\* C35: MakeNasPdu gives an Authentication Response only in answer to an
\* Authentication Request whose MAC-A verified: after an Authentication
\* Request that failed the verification it returns no Authentication
\* Response until a later Authentication Request verifies.
C35_ResponseOnlyIfVerified ==
    [][(/\ op.name = "Receive" /\ op.kind = "AuthenticationRequest"
        /\ ~op.valid /\ ~crashed
        /\ op'.name = "MakeNasPdu" /\ ~crashed')
          => ~IsAuthenticationResponse(out'.pdu)]_vars

\* the same for a UE that has verified no Authentication Request before
C35_FirstRequest ==
    [][(/\ op.name = "Receive" /\ op.kind = "AuthenticationRequest"
        /\ ~op.valid /\ ~crashed
        /\ ue.Recv.state = rcvdNull
        /\ op'.name = "MakeNasPdu" /\ ~crashed')
          => out'.pdu = << >>]_vars

====
